---- MODULE Spec2Model ----
(***************************************************************************)
(* A model of the ray tracer: intersection lists, hit selection, the      *)
(* containment walk of HitInfo::prepare and the recursive shading of      *)
(* World (color_from / shade_hit / reflected_color / refracted_color).    *)
(*                                                                         *)
(* Numbers.  An f64 is an exact rational <<n, d>> in lowest terms with    *)
(* d > 0; the two IEEE zeros are kept apart: <<0, 1>> is +0.0 and         *)
(* <<0, -1>> is -0.0.  Rounding, infinities and NaN are not modelled, so  *)
(* the inputs never divide by zero.                                        *)
(*                                                                         *)
(* Lengths.  Point coordinates, ray parameters t and distances are        *)
(* counted in units of 1e-5 (a plane "at height 4" is at y = 4e-5), so    *)
(* that SHADOW_EPSILON, a length, is the number 1.  Directions, normals   *)
(* and the tolerance PARALLEL_EPSILON are dimensionless and keep their    *)
(* values.                                                                 *)
(***************************************************************************)
EXTENDS Integers, Sequences, FiniteSets, TLC

\* Option<T>: None, and Some(x)
None == << >>
Some(x) == << x >>

----------------------------------------------------------------------------
(* f64 *)

Abs(i) == IF i < 0 THEN -i ELSE i

RECURSIVE GCD(_, _)
GCD(a, b) == IF b = 0 THEN a ELSE GCD(b, a % b)

\* n/d for d > 0, in lowest terms; the zero it yields is +0.0
F(n, d) == IF n = 0 THEN <<0, 1>> ELSE LET g == GCD(Abs(n), d) IN <<n \div g, d \div g>>

Zero == <<0, 1>>
NegZero == <<0, -1>>
One == <<1, 1>>

Den(a) == IF a[1] = 0 THEN 1 ELSE a[2]
Sign(a) == IF a[1] > 0 THEN 1 ELSE IF a[1] < 0 THEN -1 ELSE a[2]

FNeg(a) == IF a[1] = 0 THEN <<0, -a[2]>> ELSE <<-a[1], a[2]>>

FAdd(a, b) ==
    LET g == GCD(Den(a), Den(b))
        n == a[1] * (Den(b) \div g) + b[1] * (Den(a) \div g)
    IN IF n = 0
       THEN IF a = NegZero /\ b = NegZero THEN NegZero ELSE Zero
       ELSE F(n, (Den(a) \div g) * Den(b))

FSub(a, b) == FAdd(a, FNeg(b))

FMul(a, b) ==
    IF a[1] = 0 \/ b[1] = 0
    THEN <<0, Sign(a) * Sign(b)>>
    ELSE F(a[1] * b[1], a[2] * b[2])

\* b is not a zero
FDiv(a, b) ==
    IF a[1] = 0
    THEN <<0, Sign(a) * Sign(b)>>
    ELSE F(Sign(b) * a[1] * b[2], a[2] * Abs(b[1]))

\* the comparisons of IEEE 754: -0.0 == +0.0
FLt(a, b) == a[1] * Den(b) < b[1] * Den(a)
FLe(a, b) == a[1] * Den(b) <= b[1] * Den(a)
FEq(a, b) == a[1] * Den(b) = b[1] * Den(a)

FAbs(a) == IF Sign(a) < 0 THEN FNeg(a) ELSE a

\* f64::total_cmp: the IEEE total order, in which -0.0 comes before +0.0
total_cmp(a, b) ==
    IF FLt(a, b) THEN "Less"
    ELSE IF FLt(b, a) THEN "Greater"
    ELSE IF Sign(a) < Sign(b) /\ a[1] = 0 THEN "Less"
    ELSE IF Sign(b) < Sign(a) /\ a[1] = 0 THEN "Greater"
    ELSE "Equal"

RECURSIVE ISqrtFrom(_, _)
ISqrtFrom(n, r) == IF (r + 1) * (r + 1) > n THEN r ELSE ISqrtFrom(n, r + 1)
ISqrt(n) == ISqrtFrom(n, 0)

\* f64::sqrt of a >= 0: exact on squares of rationals, rounded down otherwise
FSqrt(a) ==
    IF a[1] = 0 THEN a
    ELSE LET rn == ISqrt(a[1])
             rd == ISqrt(a[2])
         IN IF rn * rn = a[1] /\ rd * rd = a[2]
            THEN <<rn, rd>>
            ELSE F(ISqrt(a[1] * a[2]), a[2])

\* f64::powf for an exponent that is a natural number
RECURSIVE FPow(_, _)
FPow(a, k) ==
    IF k = 0 THEN One
    ELSE IF k % 2 = 0 THEN LET h == FPow(a, k \div 2) IN FMul(h, h)
    ELSE FMul(a, FPow(a, k - 1))

EQUALITY_EPSILON == F(1, 100000)
PARALLEL_EPSILON == F(1, 100000)
\* 0.00001 of length, the unit in which lengths are counted
SHADOW_EPSILON == One

----------------------------------------------------------------------------
(* Tuple, Point, Vector *)

Tuple(x, y, z, w) == [x |-> x, y |-> y, z |-> z, w |-> w]
Point(x, y, z) == Tuple(x, y, z, One)
Vector(x, y, z) == Tuple(x, y, z, Zero)

TAdd(a, b) == Tuple(FAdd(a.x, b.x), FAdd(a.y, b.y), FAdd(a.z, b.z), FAdd(a.w, b.w))
TSub(a, b) == Tuple(FSub(a.x, b.x), FSub(a.y, b.y), FSub(a.z, b.z), FSub(a.w, b.w))
TNeg(a) == Tuple(FNeg(a.x), FNeg(a.y), FNeg(a.z), FNeg(a.w))
TMul(a, s) == Tuple(FMul(a.x, s), FMul(a.y, s), FMul(a.z, s), FMul(a.w, s))
TDiv(a, s) == Tuple(FDiv(a.x, s), FDiv(a.y, s), FDiv(a.z, s), FDiv(a.w, s))

magnitude(a) ==
    FSqrt(FAdd(FAdd(FAdd(FMul(a.x, a.x), FMul(a.y, a.y)), FMul(a.z, a.z)), FMul(a.w, a.w)))

normalize(a) == TDiv(a, magnitude(a))

dot(a, b) == FAdd(FAdd(FMul(a.x, b.x), FMul(a.y, b.y)), FMul(a.z, b.z))

\* v - normal * 2 * dot(v, normal)
reflect(v, normal) == TSub(v, TMul(TMul(normal, F(2, 1)), dot(v, normal)))

----------------------------------------------------------------------------
(* Color *)

Color(r, g, b) == <<r, g, b>>
BLACK == Color(Zero, Zero, Zero)
WHITE == Color(One, One, One)

CAdd(a, b) == Color(FAdd(a[1], b[1]), FAdd(a[2], b[2]), FAdd(a[3], b[3]))
CScale(a, s) == Color(FMul(a[1], s), FMul(a[2], s), FMul(a[3], s))
CMul(a, b) == Color(FMul(a[1], b[1]), FMul(a[2], b[2]), FMul(a[3], b[3]))
\* Color's PartialEq: equal within EQUALITY_EPSILON on every channel
CEq(a, b) == \A k \in 1..3 : FLt(FAbs(FSub(a[k], b[k])), EQUALITY_EPSILON)

----------------------------------------------------------------------------
(* Matrix<M, N>: entries[i][j], rows and columns counted from 0 *)

Matrix(rows) ==
    [i \in 0..(Len(rows) - 1) |-> [j \in 0..(Len(rows[1]) - 1) |-> rows[i + 1][j + 1]]]

Dim(m) == Cardinality(DOMAIN m)

\* Iterator::sum of f(0), ..., f(k - 1), folded from 0.0
RECURSIVE SumTo(_, _)
SumTo(f, k) == IF k = 0 THEN Zero ELSE FAdd(SumTo(f, k - 1), f[k - 1])

MatMul(a, b) ==
    [i \in DOMAIN a |->
        [j \in DOMAIN b[0] |->
            SumTo([k \in DOMAIN b |-> FMul(a[i][k], b[k][j])], Dim(b))]]

transpose(m) == [j \in DOMAIN m[0] |-> [i \in DOMAIN m |-> m[i][j]]]

submatrix(m, i, j) ==
    [k \in 0..(Dim(m) - 2) |->
        [l \in 0..(Dim(m) - 2) |->
            m[IF k < i THEN k ELSE k + 1][IF l < j THEN l ELSE l + 1]]]

RECURSIVE determinant(_)
minor(m, i, j) ==
    IF Dim(m) = 2 THEN submatrix(m, i, j)[0][0] ELSE determinant(submatrix(m, i, j))
cofactorUnsigned(m, i, j) == minor(m, i, j)
cofactor(m, i, j) == IF (i + j) % 2 = 0 THEN minor(m, i, j) ELSE FNeg(minor(m, i, j))
determinant(m) ==
    SumTo([j \in DOMAIN m |-> FMul(m[0][j], cofactor(m, 0, j))], Dim(m))

invertible(m) == ~FEq(determinant(m), Zero)

inverseTolerant(m) ==
    LET det == determinant(m)
    IN IF FLt(FAbs(det), EQUALITY_EPSILON)
       THEN None
       ELSE [i \in DOMAIN m |-> [j \in DOMAIN m |-> FDiv(cofactor(m, j, i), det)]]
inverse(m) ==
    LET det == determinant(m)
    IN IF FEq(det, Zero)
       THEN None
       ELSE [i \in DOMAIN m |-> [j \in DOMAIN m |-> FDiv(cofactor(m, j, i), det)]]

IDENTITY ==
    Matrix(<< <<One, Zero, Zero, Zero>>,
              <<Zero, One, Zero, Zero>>,
              <<Zero, Zero, One, Zero>>,
              <<Zero, Zero, Zero, One>> >>)

translation(x, y, z) ==
    Matrix(<< <<One, Zero, Zero, x>>,
              <<Zero, One, Zero, y>>,
              <<Zero, Zero, One, z>>,
              <<Zero, Zero, Zero, One>> >>)

scaling(x, y, z) ==
    Matrix(<< <<x, Zero, Zero, Zero>>,
              <<Zero, y, Zero, Zero>>,
              <<Zero, Zero, z, Zero>>,
              <<Zero, Zero, Zero, One>> >>)

\* PartialEq for Matrix<M, N> and for Tuple
MatrixEq(a, b) ==
    \A i \in DOMAIN a, j \in DOMAIN a[0] :
        ~FLe(EQUALITY_EPSILON, FAbs(FSub(b[i][j], a[i][j])))
TupleEq(a, b) ==
    /\ FLt(FAbs(FSub(a.x, b.x)), EQUALITY_EPSILON)
    /\ FLt(FAbs(FSub(a.y, b.y)), EQUALITY_EPSILON)
    /\ FLt(FAbs(FSub(a.z, b.z)), EQUALITY_EPSILON)
    /\ FLt(FAbs(FSub(a.w, b.w)), EQUALITY_EPSILON)

\* Transform::new: the last row is compared as arrays of f64 are, -0.0 == 0.0
TransformNewUnchecked(entries) == <<"Ok", Matrix(entries)>>
TransformNew(entries) ==
    IF \E j \in 1..4 : ~FEq(entries[4][j], IDENTITY[3][j - 1])
    THEN <<"Err", "CastingTransformError">>
    ELSE <<"Ok", Matrix(entries)>>

\* Result::expect on the Ok of a constructor
Expect(r) == r[2]

rotation_x(r) ==
    Expect(TransformNew(<< <<One, Zero, Zero, Zero>>,
                           <<Zero, r.cos, FNeg(r.sin), Zero>>,
                           <<Zero, r.sin, r.cos, Zero>>,
                           <<Zero, Zero, Zero, One>> >>))

rotation_y(r) ==
    Expect(TransformNew(<< <<r.cos, Zero, r.sin, Zero>>,
                           <<Zero, One, Zero, Zero>>,
                           <<FNeg(r.sin), Zero, r.cos, Zero>>,
                           <<Zero, Zero, Zero, One>> >>))

rotation_z(r) ==
    Expect(TransformNew(<< <<r.cos, FNeg(r.sin), Zero, Zero>>,
                           <<r.sin, r.cos, Zero, Zero>>,
                           <<Zero, Zero, One, Zero>>,
                           <<Zero, Zero, Zero, One>> >>))

shearing(x_by_y, x_by_z, y_by_x, y_by_z, z_by_x, z_by_y) ==
    Expect(TransformNew(<< <<One, x_by_y, x_by_z, Zero>>,
                           <<y_by_x, One, y_by_z, Zero>>,
                           <<z_by_x, z_by_y, One, Zero>>,
                           <<Zero, Zero, Zero, One>> >>))

\* &Transform * &Transform
TransformMul(a, b) == MatMul(a, b)

\* Transform::inverse
transform_inverse(self) ==
    LET inverted == inverse(self)
    IN IF inverted = None THEN None ELSE Some(inverted)

\* &Transform * Point and &Transform * Vector
MulPoint(m, p) ==
    LET column == MatMul(m, Matrix(<< <<p.x>>, <<p.y>>, <<p.z>>, <<One>> >>))
    IN Point(column[0][0], column[1][0], column[2][0])

MulVectorAsPoint(m, v) ==
    LET column == MatMul(m, Matrix(<< <<v.x>>, <<v.y>>, <<v.z>>, <<One>> >>))
    IN Vector(column[0][0], column[1][0], column[2][0])
MulVector(m, v) ==
    LET column == MatMul(m, Matrix(<< <<v.x>>, <<v.y>>, <<v.z>>, <<Zero>> >>))
    IN Vector(column[0][0], column[1][0], column[2][0])

----------------------------------------------------------------------------
(* Ray *)

Ray(origin, direction) == [origin |-> origin, direction |-> direction]

position(ray, t) == TAdd(ray.origin, TMul(ray.direction, t))

transformed(ray, m) == Ray(MulPoint(m, ray.origin), MulVector(m, ray.direction))

----------------------------------------------------------------------------
(* Material, Shape and its two models *)

Material(color, ambient, diffuse, specular, shininess, reflective, transparaency, refractive_index) ==
    [color |-> color, ambient |-> ambient, diffuse |-> diffuse, specular |-> specular,
     shininess |-> shininess, reflective |-> reflective,
     transparaency |-> transparaency, refractive_index |-> refractive_index]

\* Material::default
DefaultMaterial == Material(WHITE, F(1, 10), F(9, 10), F(9, 10), 200, Zero, Zero, One)

\* Shape::new followed by set_transform and an assignment of the material
NewShape(model, transform, material) ==
    [transform |-> transform, inverse |-> inverse(transform),
     material |-> material, model |-> model]

PlaneLocalIntersectExactlyParallel(local_ray) ==
    IF FEq(local_ray.direction.y, Zero)
    THEN << >>
    ELSE << FDiv(FNeg(local_ray.origin.y), local_ray.direction.y) >>
PlaneLocalIntersect(local_ray) ==
    IF FLt(FAbs(local_ray.direction.y), PARALLEL_EPSILON)
    THEN << >>
    ELSE << FDiv(FNeg(local_ray.origin.y), local_ray.direction.y) >>

SphereLocalIntersectOnceIfTangent(local_ray) ==
    LET sphere_to_ray == TSub(local_ray.origin, Point(Zero, Zero, Zero))
        a == dot(local_ray.direction, local_ray.direction)
        b == FMul(F(2, 1), dot(local_ray.direction, sphere_to_ray))
        c == FSub(dot(sphere_to_ray, sphere_to_ray), One)
        discriminant == FSub(FMul(b, b), FMul(FMul(F(4, 1), a), c))
    IN IF FLt(discriminant, Zero)
       THEN << >>
       ELSE IF FEq(discriminant, Zero)
       THEN << FDiv(FNeg(b), FMul(F(2, 1), a)) >>
       ELSE << FDiv(FSub(FNeg(b), FSqrt(discriminant)), FMul(F(2, 1), a)),
               FDiv(FAdd(FNeg(b), FSqrt(discriminant)), FMul(F(2, 1), a)) >>
SphereLocalIntersect(local_ray) ==
    LET sphere_to_ray == TSub(local_ray.origin, Point(Zero, Zero, Zero))
        a == dot(local_ray.direction, local_ray.direction)
        b == FMul(F(2, 1), dot(local_ray.direction, sphere_to_ray))
        c == FSub(dot(sphere_to_ray, sphere_to_ray), One)
        discriminant == FSub(FMul(b, b), FMul(FMul(F(4, 1), a), c))
    IN IF FLt(discriminant, Zero)
       THEN << >>
       ELSE << FDiv(FSub(FNeg(b), FSqrt(discriminant)), FMul(F(2, 1), a)),
               FDiv(FAdd(FNeg(b), FSqrt(discriminant)), FMul(F(2, 1), a)) >>

local_intersect(model, local_ray) ==
    IF model = "Plane" THEN PlaneLocalIntersect(local_ray) ELSE SphereLocalIntersect(local_ray)

local_normal_at(model, local_point) ==
    IF model = "Plane"
    THEN Vector(Zero, One, Zero)
    ELSE TSub(local_point, Point(Zero, Zero, Zero))

----------------------------------------------------------------------------
(* Intersection, Intersections.  A shape reference is the index of the     *)
(* shape in World::objects, its address in the scene.                      *)

Intersection(t, object) == [t |-> t, object |-> object]

\* PartialEq for Intersection: the difference of the t, and std::ptr::eq of
\* the two references
IntersectionEq(self, other) ==
    FLt(FSub(self.t, other.t), EQUALITY_EPSILON) /\ self.object = other.object

\* slice::sort_by(total_cmp), a stable sort: insertion of each element after
\* the elements that do not compare Greater
RECURSIVE InsertSorted(_, _)
InsertSorted(sorted, x) ==
    IF sorted = << >> THEN << x >>
    ELSE IF total_cmp(sorted[Len(sorted)].t, x.t) = "Greater"
         THEN Append(InsertSorted(SubSeq(sorted, 1, Len(sorted) - 1), x), sorted[Len(sorted)])
         ELSE Append(sorted, x)

RECURSIVE SortByT(_)
SortByT(vec) ==
    IF vec = << >> THEN << >>
    ELSE InsertSorted(SortByT(SubSeq(vec, 1, Len(vec) - 1)), vec[Len(vec)])

NewIntersectionsAsGiven(vec) == vec
NewIntersections(vec) == SortByT(vec)

\* slice::binary_search_by on a slice sorted by the comparator: Ok(i) for any
\* i whose element compares Equal, else Err(i) with i the insertion point
BinarySearchResults(vec) ==
    LET equal == {i \in 0..(Len(vec) - 1) : total_cmp(vec[i + 1].t, Zero) = "Equal"}
    IN IF equal # {}
       THEN equal
       ELSE {Cardinality({i \in 0..(Len(vec) - 1) : total_cmp(vec[i + 1].t, Zero) = "Less"})}

\* Intersections::hit: the set of values the call can return
hit(vec) ==
    IF vec = << >>
    THEN {None}
    ELSE {IF index < Len(vec) THEN Some(index) ELSE None : index \in BinarySearchResults(vec)}

\* Shape::intersect of the shape at address object
ShapeIntersectByTransform(shape, object, ray) ==
    LET local_ray == transformed(ray, shape.transform)
        ts == local_intersect(shape.model, local_ray)
    IN NewIntersections([k \in 1..Len(ts) |-> Intersection(ts[k], object)])
ShapeIntersect(shape, object, ray) ==
    LET local_ray == transformed(ray, shape.inverse)
        ts == local_intersect(shape.model, local_ray)
    IN NewIntersections([k \in 1..Len(ts) |-> Intersection(ts[k], object)])

normal_at(shape, point) ==
    LET local_point == MulPoint(shape.inverse, point)
        local_normal == local_normal_at(shape.model, local_point)
        local_normal_matrix ==
            Matrix(<< <<local_normal.x>>, <<local_normal.y>>, <<local_normal.z>> >>)
        world_normal_matrix ==
            MatMul(transpose(submatrix(shape.inverse, 3, 3)), local_normal_matrix)
    IN normalize(Vector(world_normal_matrix[0][0], world_normal_matrix[1][0],
                        world_normal_matrix[2][0]))

----------------------------------------------------------------------------
(* HitInfo::prepare *)

\* the key of first_index_by_object: the shape's address (object as *const Shape)
ShapeKeyByValue(objects, object) == objects[object]
ShapeKey(objects, object) == object

\* BTreeMap::last_key_value: the entry with the greatest key
FirstKeyValue(containers) == CHOOSE k \in DOMAIN containers : \A l \in DOMAIN containers : k <= l
LastKeyValue(containers) == CHOOSE k \in DOMAIN containers : \A l \in DOMAIN containers : l <= k

Remove(map, key) == [k \in DOMAIN map \ {key} |-> map[k]]
Insert(map, key, value) == [k \in DOMAIN map \cup {key} |-> IF k = key THEN value ELSE map[k]]
EmptyMap == [k \in {} |-> 0]

\* the state of the loop over the intersections before its first iteration
WalkInit ==
    [index |-> 0, first_index_by_object |-> EmptyMap, containers |-> EmptyMap,
     n1 |-> One, n2 |-> One, done |-> FALSE]

\* one iteration of the loop, on the intersection at w.index
WalkStep(w, objects, intersections, hit_index) ==
    LET index == w.index
        object == intersections[index + 1].object
        key == ShapeKey(objects, object)
        n1 == IF index = hit_index /\ DOMAIN w.containers # {}
              THEN objects[w.containers[LastKeyValue(w.containers)]].material.refractive_index
              ELSE w.n1
        seen == key \in DOMAIN w.first_index_by_object
        first_index_by_object ==
            IF seen THEN Remove(w.first_index_by_object, key)
            ELSE Insert(w.first_index_by_object, key, index)
        containers ==
            IF seen THEN Remove(w.containers, w.first_index_by_object[key])
            ELSE Insert(w.containers, index, object)
        n2 == IF index = hit_index /\ DOMAIN containers # {}
              THEN objects[containers[LastKeyValue(containers)]].material.refractive_index
              ELSE w.n2
    IN [index |-> index + 1, first_index_by_object |-> first_index_by_object,
        containers |-> containers, n1 |-> n1, n2 |-> n2,
        done |-> (index = hit_index) \/ (index + 1 = Len(intersections))]

RECURSIVE Walk(_, _, _, _)
Walk(w, objects, intersections, hit_index) ==
    IF w.done \/ intersections = << >> THEN w
    ELSE Walk(WalkStep(w, objects, intersections, hit_index), objects, intersections, hit_index)

prepareNaiveNormal(objects, intersections, ray, hit_index) ==
    IF hit_index >= Len(intersections)
    THEN None
    ELSE LET intersection == intersections[hit_index + 1]
             t == intersection.t
             object == intersection.object
             point == position(ray, t)
             eyev == TNeg(ray.direction)
             naive_normal == normal_at(objects[object], point)
             inside == FLt(dot(naive_normal, eyev), Zero)
             normal == naive_normal
             over_point == TAdd(point, TMul(normal, SHADOW_EPSILON))
             reflectv == reflect(ray.direction, normal)
             w == Walk(WalkInit, objects, intersections, hit_index)
             under_point == TSub(point, TMul(normal, SHADOW_EPSILON))
         IN Some([t |-> t, object |-> object, point |-> point, eyev |-> eyev,
                  normal |-> normal, inside |-> inside, over_point |-> over_point,
                  reflectv |-> reflectv, n1 |-> w.n1, n2 |-> w.n2,
                  under_point |-> under_point])
prepare(objects, intersections, ray, hit_index) ==
    IF hit_index >= Len(intersections)
    THEN None
    ELSE LET intersection == intersections[hit_index + 1]
             t == intersection.t
             object == intersection.object
             point == position(ray, t)
             eyev == TNeg(ray.direction)
             naive_normal == normal_at(objects[object], point)
             inside == FLt(dot(naive_normal, eyev), Zero)
             normal == IF inside THEN TNeg(naive_normal) ELSE naive_normal
             over_point == TAdd(point, TMul(normal, SHADOW_EPSILON))
             reflectv == reflect(ray.direction, normal)
             w == Walk(WalkInit, objects, intersections, hit_index)
             under_point == TSub(point, TMul(normal, SHADOW_EPSILON))
         IN Some([t |-> t, object |-> object, point |-> point, eyev |-> eyev,
                  normal |-> normal, inside |-> inside, over_point |-> over_point,
                  reflectv |-> reflectv, n1 |-> w.n1, n2 |-> w.n2,
                  under_point |-> under_point])

----------------------------------------------------------------------------
(* lighting, for a material without a pattern *)

PointLight(at, intensity) == [position |-> at, intensity |-> intensity]

lightingDiffuseInShadow(material, light, point, eyev, normal, in_shadow) ==
    LET color == material.color
        effective_color == CMul(color, light.intensity)
        lightv == normalize(TSub(light.position, point))
        ambient == CScale(effective_color, material.ambient)
        light_dot_normal == dot(lightv, normal)
        reflectv == reflect(TNeg(lightv), normal)
        reflect_dot_eye == dot(reflectv, eyev)
        diffuse == IF FLt(light_dot_normal, Zero)
                   THEN BLACK
                   ELSE CScale(CScale(effective_color, material.diffuse), light_dot_normal)
        specular == IF FLt(light_dot_normal, Zero) \/ FLe(reflect_dot_eye, Zero)
                    THEN BLACK
                    ELSE CScale(CScale(light.intensity, material.specular),
                                FPow(reflect_dot_eye, material.shininess))
    IN IF in_shadow THEN CAdd(ambient, diffuse) ELSE CAdd(CAdd(ambient, diffuse), specular)
lighting(material, light, point, eyev, normal, in_shadow) ==
    LET color == material.color
        effective_color == CMul(color, light.intensity)
        lightv == normalize(TSub(light.position, point))
        ambient == CScale(effective_color, material.ambient)
        light_dot_normal == dot(lightv, normal)
        reflectv == reflect(TNeg(lightv), normal)
        reflect_dot_eye == dot(reflectv, eyev)
        diffuse == IF FLt(light_dot_normal, Zero)
                   THEN BLACK
                   ELSE CScale(CScale(effective_color, material.diffuse), light_dot_normal)
        specular == IF FLt(light_dot_normal, Zero) \/ FLe(reflect_dot_eye, Zero)
                    THEN BLACK
                    ELSE CScale(CScale(light.intensity, material.specular),
                                FPow(reflect_dot_eye, material.shininess))
    IN IF in_shadow THEN ambient ELSE CAdd(CAdd(ambient, diffuse), specular)

----------------------------------------------------------------------------
(* World: the functions without a recursive call *)

RECURSIVE FlatMapIntersect(_, _, _)
FlatMapIntersect(objects, k, ray) ==
    IF k = 0 THEN << >>
    ELSE FlatMapIntersect(objects, k - 1, ray) \o ShapeIntersect(objects[k], k, ray)

intersectUnsorted(w, ray) == FlatMapIntersect(w.objects, Len(w.objects), ray)
intersect(w, ray) == NewIntersections(FlatMapIntersect(w.objects, Len(w.objects), ray))

\* World::is_shadowed: the set of values the call can return
is_shadowed(w, point) ==
    LET light_to_point == TSub(w.light.position, point)
        distance == magnitude(light_to_point)
        direction == normalize(light_to_point)
        ray == Ray(point, direction)
        intersections == intersect(w, ray)
    IN {IF hit_index # None THEN FLt(intersections[hit_index[1] + 1].t, distance) ELSE FALSE :
            hit_index \in hit(intersections)}

----------------------------------------------------------------------------
(* The operators of Point and Vector, view_transform, Builder *)

\* impl Add<Vector> for Point, Sub for Point, Sub<Vector> for Point
PointAddVector(self, rhs) == TAdd(self, rhs)
PointSubPoint(self, rhs) == TSub(self, rhs)
PointSubVector(self, rhs) == TSub(self, rhs)

\* impl Add<Point>, Add<Vector>, Sub, Neg, Mul<f64>, Div<f64> for Vector and
\* Mul<Vector> for f64
VectorAddPoint(self, rhs) == TAdd(self, rhs)
VectorAddVector(self, rhs) == TAdd(self, rhs)
VectorSubVector(self, rhs) == TSub(self, rhs)
VectorNeg(self) == TNeg(self)
VectorMulF64(self, rhs) == TMul(self, rhs)
F64MulVector(self, rhs) ==
    Tuple(FMul(self, rhs.x), FMul(self, rhs.y), FMul(self, rhs.z), FMul(self, rhs.w))
VectorDivF64(self, rhs) == TDiv(self, rhs)

\* Tuple::is_point, Tuple::is_vector
is_point(self) == FEq(self.w, One)
is_vector(self) == FEq(self.w, Zero)

cross(a, b) ==
    Vector(FSub(FMul(a.y, b.z), FMul(a.z, b.y)),
           FSub(FMul(a.z, b.x), FMul(a.x, b.z)),
           FSub(FMul(a.x, b.y), FMul(a.y, b.x)))

view_transform(from, to, up) ==
    LET forward == normalize(PointSubPoint(to, from))
        upn == normalize(up)
        left == cross(forward, upn)
        true_up == cross(left, forward)
        orientation ==
            Expect(TransformNew(
                << <<left.x, left.y, left.z, Zero>>,
                   <<true_up.x, true_up.y, true_up.z, Zero>>,
                   <<FNeg(forward.x), FNeg(forward.y), FNeg(forward.z), Zero>>,
                   <<Zero, Zero, Zero, One>> >>))
    IN TransformMul(orientation, translation(FNeg(from.x), FNeg(from.y), FNeg(from.z)))

\* Builder::new; steps counts the calls chained on it since, and chain keeps
\* the transforms they constructed, in the order of the calls
BuilderNew == [current |-> IDENTITY, steps |-> 0, chain |-> << >>]

\* a method of Builder: the transform it constructs, times self.current
BuilderThenOnTheRight(self, constructed) ==
    [current |-> TransformMul(self.current, constructed), steps |-> self.steps + 1,
     chain |-> Append(self.chain, constructed)]
BuilderThen(self, constructed) ==
    [current |-> TransformMul(constructed, self.current), steps |-> self.steps + 1,
     chain |-> Append(self.chain, constructed)]

----------------------------------------------------------------------------
(* Result<T, E>, and the values that cache the inverse of their transform *)

Ok(value) == <<"Ok", value>>
Err(error) == <<"Err", error>>
is_ok(r) == r[1] = "Ok"
is_err(r) == r[1] = "Err"

\* Shape::new: the transform and the inverse of a fresh shape
ShapeNew(model) ==
    [transform |-> IDENTITY, inverse |-> IDENTITY, material |-> DefaultMaterial, model |-> model]

\* Shape::set_transform: self afterwards, and what the call returns
shape_set_transformKeepInverse(self, transform) ==
    LET inverted == inverse(transform)
    IN IF inverted = None
       THEN [self |-> self, returns |-> Err("NoInverseError")]
       ELSE [self |-> [self EXCEPT !.transform = transform],
             returns |-> Ok(<< >>)]
shape_set_transform(self, transform) ==
    LET inverted == inverse(transform)
    IN IF inverted = None
       THEN [self |-> self, returns |-> Err("NoInverseError")]
       ELSE [self |-> [self EXCEPT !.transform = transform, !.inverse = inverted],
             returns |-> Ok(<< >>)]

\* Pattern::new
PatternNew(model) == [transform |-> IDENTITY, inverse |-> IDENTITY, model |-> model]

\* Pattern::set_transform: the ? returns before anything is assigned
pattern_set_transformAssignFirst(self, transform) ==
    LET inverted == inverse(transform)
    IN IF inverted = None
       THEN [self |-> [self EXCEPT !.transform = transform], returns |-> Err("NoInverseTransformError")]
       ELSE [self |-> [self EXCEPT !.inverse = inverted, !.transform = transform],
             returns |-> Ok(<< >>)]
pattern_set_transform(self, transform) ==
    LET inverted == inverse(transform)
    IN IF inverted = None
       THEN [self |-> self, returns |-> Err("NoInverseTransformError")]
       ELSE [self |-> [self EXCEPT !.inverse = inverted, !.transform = transform],
             returns |-> Ok(<< >>)]

----------------------------------------------------------------------------
(* Canvas *)

\* Color::default
DefaultColor == Color(Zero, Zero, Zero)

CanvasNew(width, height) ==
    [width |-> width, height |-> height,
     pixels |-> [k \in 1..(width * height) |-> DefaultColor]]

\* pixels[y * width + x], the vector being counted from 0
pixel_at(self, x, y) ==
    IF x >= self.width \/ y >= self.height
    THEN Err("PixelOutOfBoundsError")
    ELSE Ok(self.pixels[y * self.width + x + 1])

\* Canvas::write_pixel: self afterwards, and what the call returns
write_pixelTransposed(self, x, y, color) ==
    IF x >= self.width \/ y >= self.height
    THEN [self |-> self, returns |-> Err("PixelOutOfBoundsError")]
    ELSE [self |-> [self EXCEPT !.pixels[x * self.height + y + 1] = color],
          returns |-> Ok(<< >>)]
write_pixel(self, x, y, color) ==
    IF x >= self.width \/ y >= self.height
    THEN [self |-> self, returns |-> Err("PixelOutOfBoundsError")]
    ELSE [self |-> [self EXCEPT !.pixels[y * self.width + x + 1] = color],
          returns |-> Ok(<< >>)]

----------------------------------------------------------------------------
(* Camera.  An angle r is kept as the point <<cos r, sin r>> of the unit     *)
(* circle, with rational coordinates; the tangent of its half is then       *)
(* sin r / (1 + cos r), exactly.                                            *)

Angle(c, s) == [cos |-> c, sin |-> s]
Cos(r) == r.cos
Sin(r) == r.sin
\* (r / 2.0).tan()
TanHalf(r) == FDiv(r.sin, FAdd(One, r.cos))

\* usize as f64
AsF64(n) == F(n, 1)

CameraNew(hsize, vsize, field_of_view) ==
    LET half_view == TanHalf(field_of_view)
        aspect == FDiv(AsF64(hsize), AsF64(vsize))
        half_width == IF FLe(One, aspect) THEN half_view ELSE FMul(half_view, aspect)
        half_height == IF FLe(One, aspect) THEN FDiv(half_view, aspect) ELSE half_view
        pixel_size == FDiv(FMul(half_width, F(2, 1)), AsF64(hsize))
    IN [hsize |-> hsize, vsize |-> vsize, field_of_view |-> field_of_view,
        transform |-> IDENTITY, inverse |-> IDENTITY,
        half_width |-> half_width, half_height |-> half_height, pixel_size |-> pixel_size]

\* Camera::ray_for_pixel.  The point of the canvas keeps the value the code
\* gives it, (world_x, world_y, -1.0): the direction is normalised, and so
\* does not depend on the unit in which that point is counted.
ray_for_pixel(self, x, y) ==
    IF x > self.hsize \/ y > self.vsize
    THEN Err("PixelOutOfBoundsError")
    ELSE LET xoffset == FMul(FAdd(AsF64(x), F(1, 2)), self.pixel_size)
             yoffset == FMul(FAdd(AsF64(y), F(1, 2)), self.pixel_size)
             world_x == FSub(self.half_width, xoffset)
             world_y == FSub(self.half_height, yoffset)
             pixel == MulPoint(self.inverse, Point(world_x, world_y, F(-1, 1)))
             origin == MulPoint(self.inverse, Point(Zero, Zero, Zero))
             direction == normalize(TSub(pixel, origin))
         IN Ok(Ray(origin, direction))

\* Camera::set_transform: self afterwards, and what the call returns
camera_set_transform(self, transform) ==
    LET inverted == inverse(transform)
    IN IF inverted = None
       THEN [self |-> self, returns |-> Err("NoInverseError")]
       ELSE [self |-> [self EXCEPT !.transform = transform, !.inverse = inverted],
             returns |-> Ok(<< >>)]

----------------------------------------------------------------------------
(* Bounds and inputs *)

\* longest Vec<Intersection> handed to Intersections::new
MaxLen == 3
\* largest recursion budget handed to an outermost call
MaxBudget == 2
\* most shapes of an enumerated world of planes
MaxShapes == 2
\* frames of the call stack: three per level of color_from, and one spare
MaxStack == 3 * (MaxBudget + 1) + 1

RECURSION_DEPTH == 5

\* the materials of the scenes
Glass(refractive_index) ==
    [DefaultMaterial EXCEPT !.transparaency = One, !.refractive_index = refractive_index,
                            !.shininess = 2]
Mirror == [DefaultMaterial EXCEPT !.reflective = One]
HalfMirrorGlass ==
    [DefaultMaterial EXCEPT !.reflective = F(1, 2), !.transparaency = F(1, 2),
                            !.refractive_index = F(3, 2)]

\* the shapes of the intersection lists: A, B, C are the nested glass spheres
\* of the test various_n1_and_n2, the fourth is a second instance equal to A
XsObjects ==
    << NewShape("Sphere", scaling(F(2, 1), F(2, 1), F(2, 1)), Glass(F(3, 2))),
       NewShape("Sphere", translation(Zero, Zero, F(-1, 4)), Glass(F(2, 1))),
       NewShape("Sphere", translation(Zero, Zero, F(1, 4)), Glass(F(5, 2))),
       NewShape("Sphere", scaling(F(2, 1), F(2, 1), F(2, 1)), Glass(F(3, 2))) >>

XsWorld == [objects |-> XsObjects, light |-> PointLight(Point(Zero, Zero, Zero), WHITE)]

\* A, B, C, B, C, A at t = 2, 2.75, 3.25, 4.75, 5.25, 6
NestedGlassVec ==
    << Intersection(F(2, 1), 1), Intersection(F(11, 4), 2), Intersection(F(13, 4), 3),
       Intersection(F(19, 4), 2), Intersection(F(21, 4), 3), Intersection(F(6, 1), 1) >>

TValues == {F(-1, 1), NegZero, Zero, F(1, 1)}
XsInputs == {Intersection(t, object) : t \in TValues, object \in {1, 2, 4}}

RECURSIVE SeqsUpTo(_, _)
SeqsUpTo(S, n) ==
    IF n = 0 THEN {<< >>}
    ELSE LET shorter == SeqsUpTo(S, n - 1)
         IN shorter \cup {Append(q, x) : q \in {r \in shorter : Len(r) = n - 1}, x \in S}

----------------------------------------------------------------------------
(* State *)

VARIABLES
    world,      \* the World: objects (the arena of shapes) and light
    vec,        \* the Vec<Intersection> handed to Intersections::new
    xs,         \* the Intersections value built from vec
    hit_index,  \* what hit() returned, or the hit_index handed to prepare
    walk,       \* the locals of the loop of HitInfo::prepare
    pc,         \* where the run over an intersection list stands
    stack,      \* the call stack of the World functions, outermost first
    ret,        \* the value returned by the call that ended last, not yet taken
    shape,      \* a Shape: its transform and the inverse it caches
    pattern,    \* a Pattern: its transform and the inverse it caches
    camera,     \* a Camera
    canvas,     \* a Canvas
    builder,    \* a Builder: its field current, and the calls that made it
    result      \* the operation called last on these values and what it returned

\* no call has returned yet
NoReturn ==
    [fn |-> "", color |-> BLACK, intersections |-> << >>, shadowed |-> FALSE,
     image |-> CanvasNew(0, 0)]

\* the values that the intersection lists and the World functions never touch
values == <<shape, pattern, camera, canvas, builder, result>>

vars == <<world, vec, xs, hit_index, walk, pc, stack, ret, values>>

\* no operation has been called on the values yet
NoResult == [op |-> "", args |-> << >>, returns |-> << >>]

\* the values as they are constructed
NewValues ==
    /\ shape = ShapeNew("Sphere")
    /\ pattern = PatternNew("Stripes")
    /\ camera = CameraNew(1, 1, Angle(Zero, One))
    /\ canvas = CanvasNew(0, 0)
    /\ builder = BuilderNew
    /\ result = NoResult

----------------------------------------------------------------------------
(* Intersection lists: Intersections::new, hit, HitInfo::prepare's loop *)

InitXs ==
    /\ world = XsWorld
    /\ vec \in SeqsUpTo(XsInputs, MaxLen) \cup {NestedGlassVec}
    /\ xs = << >>
    /\ hit_index = None
    /\ walk = WalkInit
    /\ pc = "vec"
    /\ stack = << >>
    /\ ret = NoReturn
    /\ NewValues

New ==
    /\ pc = "vec"
    /\ xs' = NewIntersections(vec)
    /\ pc' = "xs"
    /\ UNCHANGED <<world, vec, hit_index, walk, stack, ret, values>>

Hit ==
    /\ pc = "xs"
    /\ hit_index' \in hit(xs)
    /\ pc' = "hit"
    /\ UNCHANGED <<world, vec, xs, walk, stack, ret, values>>

\* prepare with a hit_index outside the list: intersections.get(hit_index)?
PrepareNone ==
    /\ pc = "xs"
    /\ hit_index' = Some(Len(xs))
    /\ prepare(world.objects, xs, Ray(Point(Zero, Zero, Zero), Vector(Zero, Zero, One)),
               Len(xs)) = None
    /\ pc' = "none"
    /\ UNCHANGED <<world, vec, xs, walk, stack, ret, values>>

PrepareBegin ==
    /\ pc = "xs"
    /\ \E index \in 0..(Len(xs) - 1) : hit_index' = Some(index)
    /\ walk' = WalkInit
    /\ pc' = "walk"
    /\ UNCHANGED <<world, vec, xs, stack, ret, values>>

PrepareLoop ==
    /\ pc = "walk"
    /\ walk' = WalkStep(walk, world.objects, xs, hit_index[1])
    /\ pc' = IF walk'.done THEN "prepared" ELSE "walk"
    /\ UNCHANGED <<world, vec, xs, hit_index, stack, ret, values>>

NextXs == New \/ Hit \/ PrepareNone \/ PrepareBegin \/ PrepareLoop

SpecXs == InitXs /\ [][NextXs]_vars

----------------------------------------------------------------------------
(* Claims about intersection lists, checked under SpecXs *)

Range(f) == {f[k] : k \in DOMAIN f}

\* C1: hit() returns the index of an intersection whose t is the smallest
\* t >= 0 of the collection, every intersection at a lower index having
\* t < 0; it returns None when the collection is empty or every t is negative.
C1_HitIsLowestNonNegative ==
    pc = "hit" =>
        IF hit_index = None
        THEN \A k \in 1..Len(xs) : FLt(xs[k].t, Zero)
        ELSE /\ FLe(Zero, xs[hit_index[1] + 1].t)
             /\ \A k \in 1..hit_index[1] : FLt(xs[k].t, Zero)
             /\ \A k \in 1..Len(xs) :
                    FLe(Zero, xs[k].t) => FLe(xs[hit_index[1] + 1].t, xs[k].t)

\* the reference containment algorithm: the containers, oldest first, after
\* the first k intersections
RECURSIVE RefContainers(_, _)
RefContainers(intersections, k) ==
    IF k = 0 THEN << >>
    ELSE LET before == RefContainers(intersections, k - 1)
             object == intersections[k].object
         IN IF object \in Range(before)
            THEN SelectSeq(before, LAMBDA o : o # object)
            ELSE Append(before, object)

RefIndex(objects, containers) ==
    IF containers = << >> THEN One
    ELSE objects[containers[Len(containers)]].material.refractive_index

NestedGlassExamples ==
    << <<F(1, 1), F(3, 2)>>, <<F(3, 2), F(2, 1)>>, <<F(2, 1), F(5, 2)>>,
       <<F(5, 2), F(5, 2)>>, <<F(5, 2), F(3, 2)>>, <<F(3, 2), F(1, 1)>> >>

\* C2: for every sorted list and every valid hit_index, prepare's n1 is the
\* refractive index of the newest container left just before the hit
\* intersection is processed and n2 the one just after, 1.0 when none is
\* left; the nested glass spheres A, B, C, B, C, A give the six listed pairs.
C2_N1N2AsReference ==
    pc = "prepared" =>
        /\ walk.n1 = RefIndex(world.objects, RefContainers(xs, hit_index[1]))
        /\ walk.n2 = RefIndex(world.objects, RefContainers(xs, hit_index[1] + 1))
        /\ vec = NestedGlassVec => <<walk.n1, walk.n2>> = NestedGlassExamples[hit_index[1] + 1]

C2_Witness ==
    /\ pc = "prepared"
    /\ vec = NestedGlassVec
    /\ hit_index = Some(4)
    /\ walk.n1 = F(5, 2)
    /\ walk.n2 = F(3, 2)

\* C3: the containment walk matches entering and exiting by shape identity:
\* an iteration removes a container only if its intersection refers to the
\* very instance that added it, and adds a container for an instance that is
\* not contained even when an equal-valued shape is.
C3_MatchByIdentity ==
    [][pc = "walk" =>
        LET object == xs[walk.index + 1].object
        IN /\ \A k \in DOMAIN walk.containers \ DOMAIN walk'.containers :
                  walk.containers[k] = object
           /\ object \notin Range(walk.containers) =>
                  walk'.containers = Insert(walk.containers, walk.index, object)]_vars

C3_Witness ==
    /\ pc \in {"walk", "prepared"}
    /\ \E k, l \in DOMAIN walk.containers :
          /\ walk.containers[k] # walk.containers[l]
          /\ world.objects[walk.containers[k]] = world.objects[walk.containers[l]]

----------------------------------------------------------------------------
(* Scenes.  Every scene keeps the arithmetic exact: the planes are          *)
(* horizontal, their rays and the light lie on the y axis, and the glass    *)
(* sphere has radius 5 with rays through the points of a 3-4-5 triangle.    *)

Origin == Point(Zero, Zero, Zero)

PlaneHeights == {F(-3, 1), F(3, 1)}
PlaneMaterials == {DefaultMaterial, Mirror, HalfMirrorGlass}
Planes ==
    {NewShape("Plane", translation(Zero, h, Zero), m) : h \in PlaneHeights, m \in PlaneMaterials}

\* a light at the origin, between the two heights
PlaneWorlds ==
    {[objects |-> objects, light |-> PointLight(Origin, WHITE)] :
        objects \in SeqsUpTo(Planes, MaxShapes)}

\* rays from the light, from a point of the upper planes and from above them,
\* going up, down, or along the planes
PlaneRays ==
    {Ray(Point(Zero, y, Zero), d) :
        y \in {Zero, F(3, 1), F(5, 1)},
        d \in {Vector(Zero, One, Zero), Vector(Zero, F(-1, 1), Zero), Vector(One, Zero, Zero)}}

\* points handed to is_shadowed: on a plane below the light, on a plane above
\* it, between the light and a plane, beyond the planes
PlanePoints == {Point(Zero, y, Zero) : y \in {F(-3, 1), F(3, 1), F(2, 1), F(5, 1)}}

\* a half mirror of glass above the light, between a floor and a ceiling
GlassBetween ==
    [objects |-> << NewShape("Plane", translation(Zero, F(3, 1), Zero), HalfMirrorGlass),
                    NewShape("Plane", translation(Zero, F(-3, 1), Zero), DefaultMaterial),
                    NewShape("Plane", translation(Zero, F(6, 1), Zero), DefaultMaterial) >>,
     light |-> PointLight(Origin, WHITE)]

\* a glass sphere of radius 5 around the light
SphereWorld ==
    [objects |-> << NewShape("Sphere", scaling(F(5, 1), F(5, 1), F(5, 1)), Glass(F(3, 2))) >>,
     light |-> PointLight(Origin, WHITE)]

\* a ray through the centre, a ray that meets the sphere from inside at
\* (4, 3, 0) under an angle beyond the critical angle, a ray that misses
SphereRays ==
    {Ray(Point(Zero, F(-8, 1), Zero), Vector(Zero, One, Zero)),
     Ray(Point(F(4, 1), Zero, Zero), Vector(Zero, One, Zero)),
     Ray(Point(F(8, 1), Zero, Zero), Vector(Zero, One, Zero))}

SpherePoints == {Point(Zero, F(4, 1), Zero), Point(Zero, F(-6, 1), Zero)}

Budgets == 0..MaxBudget

----------------------------------------------------------------------------
(* The call stack of World: one frame per call in progress *)

ColorFromFrame(ray, remaining) ==
    [fn |-> "color_from", pc |-> "start", ray |-> ray, remaining |-> remaining]

ShadeHitFrame(hit_info, remaining) ==
    [fn |-> "shade_hit", pc |-> "start", hit_info |-> hit_info, remaining |-> remaining,
     surface |-> BLACK, reflected |-> BLACK]

ReflectedColorFrame(hit_info, remaining) ==
    [fn |-> "reflected_color", pc |-> "start", hit_info |-> hit_info, remaining |-> remaining]

RefractedColorFrame(hit_info, remaining) ==
    [fn |-> "refracted_color", pc |-> "start", hit_info |-> hit_info, remaining |-> remaining]

IntersectFrame(ray) == [fn |-> "intersect", pc |-> "start", ray |-> ray]

IsShadowedFrame(point) == [fn |-> "is_shadowed", pc |-> "start", point |-> point]

\* the calls made from outside on a world
Calls(rays, points) ==
    {ColorFromFrame(ray, remaining) : ray \in rays, remaining \in Budgets}
        \cup {IntersectFrame(ray) : ray \in rays}
        \cup {IsShadowedFrame(point) : point \in points}

Top == stack[Len(stack)]
Callers == SubSeq(stack, 1, Len(stack) - 1)

Running(fn, at) == pc = "called" /\ stack # << >> /\ Top.fn = fn /\ Top.pc = at

\* the field of ret that holds what fn returns
ResultOf(fn) ==
    IF fn = "intersect" THEN "intersections"
    ELSE IF fn = "is_shadowed" THEN "shadowed"
    ELSE IF fn = "render" THEN "image"
    ELSE "color"

\* the call on top returns value to its caller
Return(value) ==
    /\ stack' = Callers
    /\ ret' = [NoReturn EXCEPT !.fn = Top.fn, ![ResultOf(Top.fn)] = value]
    /\ pc' = pc

\* the call on top, its locals being those of caller, calls frame and waits;
\* the stack of the thread has room for MaxStack frames, and a call beyond
\* them overflows it, which aborts the program
Call(caller, frame) ==
    IF Len(stack) < MaxStack
    THEN /\ stack' = Append(Append(Callers, [caller EXCEPT !.pc = frame.fn]), frame)
         /\ ret' = ret
         /\ pc' = pc
    ELSE /\ pc' = "stack overflow"
         /\ UNCHANGED <<stack, ret>>

Done == pc = "called" /\ stack = << >>

----------------------------------------------------------------------------
(* World: shade_hit, color_from, reflected_color, refracted_color *)

\* the values shade_hit can compute for surface
ShadeHitSurfaceAtPoint(w, hit_info) ==
    {lighting(w.objects[hit_info.object].material, w.light, hit_info.point, hit_info.eyev,
              hit_info.normal, shadowed) : shadowed \in is_shadowed(w, hit_info.point)}
ShadeHitSurface(w, hit_info) ==
    {lighting(w.objects[hit_info.object].material, w.light, hit_info.point, hit_info.eyev,
              hit_info.normal, shadowed) : shadowed \in is_shadowed(w, hit_info.over_point)}

\* the budget of the recursive call: remaining - 1
NextRemainingSame(remaining) == remaining
NextRemaining(remaining) == remaining - 1

reflect_rayFromPoint(hit_info) == Ray(hit_info.point, hit_info.reflectv)
reflect_ray(hit_info) == Ray(hit_info.over_point, hit_info.reflectv)

n_ratio(hit_info) == FDiv(hit_info.n1, hit_info.n2)
cos_i(hit_info) == dot(hit_info.eyev, hit_info.normal)
sin2_t(hit_info) ==
    FMul(FMul(n_ratio(hit_info), n_ratio(hit_info)),
         FSub(One, FMul(cos_i(hit_info), cos_i(hit_info))))

refract_rayFromOverPoint(hit_info) == Ray(hit_info.over_point, TNeg(hit_info.eyev))
refract_ray(hit_info) ==
    LET cos_t == FSqrt(FSub(One, sin2_t(hit_info)))
        direction ==
            TSub(TMul(hit_info.normal, FSub(FMul(n_ratio(hit_info), cos_i(hit_info)), cos_t)),
                 TMul(hit_info.eyev, n_ratio(hit_info)))
    IN Ray(hit_info.under_point, direction)

ShadeHitStart ==
    /\ Running("shade_hit", "start")
    /\ \E surface \in ShadeHitSurface(world, Top.hit_info) :
          Call([Top EXCEPT !.surface = surface],
               ReflectedColorFrame(Top.hit_info, Top.remaining))
    /\ UNCHANGED <<world, vec, xs, hit_index, walk, values>>

ShadeHitReflected ==
    /\ Running("shade_hit", "reflected_color")
    /\ Call([Top EXCEPT !.reflected = ret.color],
            RefractedColorFrame(Top.hit_info, Top.remaining))
    /\ UNCHANGED <<world, vec, xs, hit_index, walk, values>>

ShadeHitReturn ==
    /\ Running("shade_hit", "refracted_color")
    /\ Return(CAdd(CAdd(Top.surface, Top.reflected), ret.color))
    /\ UNCHANGED <<world, vec, xs, hit_index, walk, values>>

ColorFromMiss ==
    /\ Running("color_from", "start")
    /\ None \in hit(intersect(world, Top.ray))
    /\ Return(Color(Zero, Zero, Zero))
    /\ UNCHANGED <<world, vec, xs, hit_index, walk, values>>

ColorFromHit ==
    /\ Running("color_from", "start")
    /\ \E intersections \in {intersect(world, Top.ray)} :
          \E index \in hit(intersections) \ {None} :
             \E hit_info \in {prepare(world.objects, intersections, Top.ray, index[1])[1]} :
                Call(Top, ShadeHitFrame(hit_info, Top.remaining))
    /\ UNCHANGED <<world, vec, xs, hit_index, walk, values>>

ColorFromReturn ==
    /\ Running("color_from", "shade_hit")
    /\ Return(ret.color)
    /\ UNCHANGED <<world, vec, xs, hit_index, walk, values>>

IsShadowedCall ==
    /\ Running("is_shadowed", "start")
    /\ \E shadowed \in is_shadowed(world, Top.point) : Return(shadowed)
    /\ UNCHANGED <<world, vec, xs, hit_index, walk, values>>

IntersectCall ==
    /\ Running("intersect", "start")
    /\ Return(intersect(world, Top.ray))
    /\ UNCHANGED <<world, vec, xs, hit_index, walk, values>>

ReflectedZero ==
    /\ Running("reflected_color", "start")
    /\ Top.remaining = 0 \/ FEq(world.objects[Top.hit_info.object].material.reflective, Zero)
    /\ Return(Color(Zero, Zero, Zero))
    /\ UNCHANGED <<world, vec, xs, hit_index, walk, values>>

ReflectedCastAtZero ==
    /\ Running("reflected_color", "start")
    /\ ~FEq(world.objects[Top.hit_info.object].material.reflective, Zero)
    /\ Call(Top, ColorFromFrame(reflect_ray(Top.hit_info), NextRemaining(Top.remaining)))
    /\ UNCHANGED <<world, vec, xs, hit_index, walk, values>>

ReflectedCast ==
    /\ Running("reflected_color", "start")
    /\ ~(Top.remaining = 0 \/ FEq(world.objects[Top.hit_info.object].material.reflective, Zero))
    /\ Call(Top, ColorFromFrame(reflect_ray(Top.hit_info), NextRemaining(Top.remaining)))
    /\ UNCHANGED <<world, vec, xs, hit_index, walk, values>>

ReflectedReturn ==
    /\ Running("reflected_color", "color_from")
    /\ Return(CScale(ret.color, world.objects[Top.hit_info.object].material.reflective))
    /\ UNCHANGED <<world, vec, xs, hit_index, walk, values>>

RefractedZero ==
    /\ Running("refracted_color", "start")
    /\ Top.remaining = 0 \/ FEq(world.objects[Top.hit_info.object].material.transparaency, Zero)
    /\ Return(Color(Zero, Zero, Zero))
    /\ UNCHANGED <<world, vec, xs, hit_index, walk, values>>

RefractedTotalInternal ==
    /\ Running("refracted_color", "start")
    /\ ~(Top.remaining = 0 \/ FEq(world.objects[Top.hit_info.object].material.transparaency, Zero))
    /\ FLt(One, sin2_t(Top.hit_info))
    /\ Return(Color(Zero, Zero, Zero))
    /\ UNCHANGED <<world, vec, xs, hit_index, walk, values>>

RefractedCast ==
    /\ Running("refracted_color", "start")
    /\ ~(Top.remaining = 0 \/ FEq(world.objects[Top.hit_info.object].material.transparaency, Zero))
    /\ ~FLt(One, sin2_t(Top.hit_info))
    /\ Call(Top, ColorFromFrame(refract_ray(Top.hit_info), NextRemaining(Top.remaining)))
    /\ UNCHANGED <<world, vec, xs, hit_index, walk, values>>

RefractedReturn ==
    /\ Running("refracted_color", "color_from")
    /\ Return(CScale(ret.color, world.objects[Top.hit_info.object].material.transparaency))
    /\ UNCHANGED <<world, vec, xs, hit_index, walk, values>>

InitWorld ==
    /\ world \in PlaneWorlds \cup {GlassBetween, SphereWorld}
    /\ vec = << >>
    /\ xs = << >>
    /\ hit_index = None
    /\ walk = WalkInit
    /\ pc = "world"
    /\ stack = << >>
    /\ ret = NoReturn
    /\ NewValues

\* one call from outside on the world
Enter ==
    /\ pc = "world"
    /\ \E call \in IF world = SphereWorld THEN Calls(SphereRays, SpherePoints)
                                          ELSE Calls(PlaneRays, PlanePoints) :
          stack' = << call >>
    /\ pc' = "called"
    /\ UNCHANGED <<world, vec, xs, hit_index, walk, ret, values>>

NextWorld ==
    \/ Enter
    \/ IntersectCall \/ IsShadowedCall
    \/ ColorFromMiss \/ ColorFromHit \/ ColorFromReturn
    \/ ShadeHitStart \/ ShadeHitReflected \/ ShadeHitReturn
    \/ ReflectedZero \/ ReflectedCast \/ ReflectedReturn
    \/ RefractedZero \/ RefractedTotalInternal \/ RefractedCast \/ RefractedReturn

SpecWorld == InitWorld /\ [][NextWorld]_vars

\* a step of a call in progress: a call or a return, one frame more or less
Proceed ==
    /\ pc = "called"
    /\ stack # << >>
    /\ stack' = Callers \/ Len(stack') = Len(stack) + 1

\* the thread of a call in progress keeps running
FairWorld == SpecWorld /\ WF_stack(Proceed)

----------------------------------------------------------------------------
(* Claims about World, checked under SpecWorld and FairWorld *)

TwoFacingMirrors ==
    [objects |-> << NewShape("Plane", translation(Zero, F(-3, 1), Zero), Mirror),
                    NewShape("Plane", translation(Zero, F(3, 1), Zero), Mirror) >>,
     light |-> PointLight(Origin, WHITE)]

\* C4: in every world, two fully reflective parallel planes that face each
\* other included, and for every ray and every budget, color_from terminates:
\* every chain color_from -> shade_hit -> reflected_color / refracted_color ->
\* color_from returns, so that no call is left in progress.
C4_ColorFromTerminates == (stack # << >>) ~> Done

\* between the mirrors every bounce adds the fully lit surface of a mirror
C4_Witness ==
    /\ Done
    /\ world = TwoFacingMirrors
    /\ ret.fn = "color_from"
    /\ ret.color = CScale(Color(F(19, 10), F(19, 10), F(19, 10)), F(MaxBudget + 1, 1))

\* the frames of stack' under its top are the frames of stack, the top one
\* waiting for callee
Called(callee) ==
    /\ Len(stack') = Len(stack) + 1
    /\ SubSeq(stack', 1, Len(stack)) = Append(Callers, [Top EXCEPT !.pc = callee.fn])
    /\ stack'[Len(stack')] = callee

\* C5: reflected_color returns black without casting a ray when remaining is
\* 0 or the material's reflective is 0; otherwise it calls color_from exactly
\* once, on the ray from over_point along reflectv with budget remaining - 1,
\* and returns the colour that call returned scaled by reflective.
C5_ReflectedColor ==
    [][stack # << >> /\ Top.fn = "reflected_color" =>
        LET hit_info == Top.hit_info
            reflective == world.objects[hit_info.object].material.reflective
        IN IF Top.pc = "start"
           THEN IF Top.remaining = 0 \/ FEq(reflective, Zero)
                THEN stack' = Callers /\ ret'.color = BLACK
                ELSE Called(ColorFromFrame(Ray(hit_info.over_point, hit_info.reflectv),
                                           Top.remaining - 1))
           ELSE /\ ret.fn = "color_from"
                /\ stack' = Callers
                /\ ret'.color = CScale(ret.color, reflective)]_vars

\* a half mirror has returned half of a colour that is not black
C5_Witness ==
    /\ Running("shade_hit", "reflected_color")
    /\ ret.fn = "reflected_color"
    /\ ret.color # BLACK
    /\ world.objects[Top.hit_info.object].material.reflective = F(1, 2)

\* (n1 / n2)^2 * (1 - cos_i^2)
Sin2T(hit_info) ==
    LET ratio == FDiv(hit_info.n1, hit_info.n2)
        cos == dot(hit_info.eyev, hit_info.normal)
    IN FMul(FMul(ratio, ratio), FSub(One, FMul(cos, cos)))

\* the direction of the refracted ray by Snell's law
SnellDirection(hit_info) ==
    LET ratio == FDiv(hit_info.n1, hit_info.n2)
        cos == dot(hit_info.eyev, hit_info.normal)
        cos_t == FSqrt(FSub(One, Sin2T(hit_info)))
    IN TSub(TMul(hit_info.normal, FSub(FMul(ratio, cos), cos_t)), TMul(hit_info.eyev, ratio))

\* C6: refracted_color returns black without casting a ray when remaining is
\* 0, or the material's transparency is 0, or sin2_t = (n1/n2)^2 * (1 - cos_i^2)
\* exceeds 1; otherwise it calls color_from exactly once, on the refracted ray
\* that starts at under_point with budget remaining - 1, and returns the
\* colour that call returned scaled by the transparency.
C6_RefractedColor ==
    [][stack # << >> /\ Top.fn = "refracted_color" =>
        LET hit_info == Top.hit_info
            transparency == world.objects[hit_info.object].material.transparaency
        IN IF Top.pc = "start"
           THEN IF \/ Top.remaining = 0
                   \/ FEq(transparency, Zero)
                   \/ FLt(One, Sin2T(hit_info))
                THEN stack' = Callers /\ ret'.color = BLACK
                ELSE Called(ColorFromFrame(Ray(hit_info.under_point, SnellDirection(hit_info)),
                                           Top.remaining - 1))
           ELSE /\ ret.fn = "color_from"
                /\ stack' = Callers
                /\ ret'.color = CScale(ret.color, transparency)]_vars

\* total internal reflection inside the glass sphere, with budget left
C6_Witness ==
    /\ Running("shade_hit", "refracted_color")
    /\ ret.fn = "refracted_color"
    /\ ret.color = BLACK
    /\ Top.remaining > 0
    /\ world.objects[Top.hit_info.object].material.transparaency = One
    /\ Sin2T(Top.hit_info) = F(36, 25)

\* the indices of the intersections whose t is the smallest t >= 0
SmallestNonNegative(intersections) ==
    {k - 1 : k \in {l \in 1..Len(intersections) :
                       /\ FLe(Zero, intersections[l].t)
                       /\ \A m \in 1..Len(intersections) :
                              FLe(Zero, intersections[m].t) =>
                                  FLe(intersections[l].t, intersections[m].t)}}

\* C7: color_from returns black when the intersections of the world with the
\* ray hold no hit, there being no intersection or only intersections with a
\* negative t; otherwise it returns what shade_hit returns for the HitInfo
\* prepared for the index of the hit, called with the same remaining.
C7_ColorFrom ==
    [][stack # << >> /\ Top.fn = "color_from" =>
        LET intersections == intersect(world, Top.ray)
        IN IF Top.pc = "start"
           THEN IF \A k \in 1..Len(intersections) : FLt(intersections[k].t, Zero)
                THEN stack' = Callers /\ ret'.color = BLACK
                ELSE \E index \in SmallestNonNegative(intersections) :
                        Called(ShadeHitFrame(
                                   prepare(world.objects, intersections, Top.ray, index)[1],
                                   Top.remaining))
           ELSE /\ ret.fn = "shade_hit"
                /\ stack' = Callers
                /\ ret'.color = ret.color]_vars

\* C8: shade_hit returns the sum surface + reflected + refracted, where
\* surface is lighting() with in_shadow = is_shadowed(over_point) and
\* reflected and refracted are what reflected_color and refracted_color
\* return, each called with the hit_info and the remaining of shade_hit.
C8_ShadeHit ==
    [][stack # << >> /\ Top.fn = "shade_hit" =>
        LET hit_info == Top.hit_info
            material == world.objects[hit_info.object].material
        IN CASE Top.pc = "start" ->
                   /\ Len(stack') = Len(stack) + 1
                   /\ SubSeq(stack', 1, Len(stack) - 1) = Callers
                   /\ \E in_shadow \in is_shadowed(world, hit_info.over_point) :
                         stack'[Len(stack)] =
                             [Top EXCEPT !.pc = "reflected_color",
                                         !.surface = lighting(material, world.light,
                                                              hit_info.point, hit_info.eyev,
                                                              hit_info.normal, in_shadow)]
                   /\ stack'[Len(stack')] = ReflectedColorFrame(hit_info, Top.remaining)
             [] Top.pc = "reflected_color" ->
                   /\ ret.fn = "reflected_color"
                   /\ Len(stack') = Len(stack) + 1
                   /\ SubSeq(stack', 1, Len(stack) - 1) = Callers
                   /\ stack'[Len(stack)] =
                          [Top EXCEPT !.pc = "refracted_color", !.reflected = ret.color]
                   /\ stack'[Len(stack')] = RefractedColorFrame(hit_info, Top.remaining)
             [] Top.pc = "refracted_color" ->
                   /\ ret.fn = "refracted_color"
                   /\ stack' = Callers
                   /\ ret'.color = CAdd(CAdd(Top.surface, Top.reflected), ret.color)]_vars

\* the three terms are there, none of them black, and the surface is lit:
\* its over_point is not in shadow although its point is
C8_Witness ==
    /\ Running("shade_hit", "refracted_color")
    /\ ret.fn = "refracted_color"
    /\ ret.color # BLACK
    /\ Top.reflected # BLACK
    /\ Top.surface \notin ShadeHitSurfaceAtPoint(world, Top.hit_info)

\* how often intersections holds an intersection of the shape with parameter t
Count(intersections, t, of) ==
    Cardinality({k \in 1..Len(intersections) :
                    intersections[k].t = t /\ intersections[k].shape = of})

\* the intersections with the shape in the place of the reference to it
ByShape(objects, intersections) ==
    [k \in 1..Len(intersections) |->
        [t |-> intersections[k].t, shape |-> objects[intersections[k].object]]]

\* C9: World::intersect returns the intersections of every shape of the world
\* with the ray, each as often as the shape yields it and nothing else, in
\* ascending order of t, and the same ones whatever the order of the shapes.
C9_IntersectIsSortedUnion ==
    [][stack # << >> /\ Top.fn = "intersect" =>
        LET objects == world.objects
            returned == ret'.intersections
            each == [k \in 1..Len(objects) |->
                        ByShape(objects, ShapeIntersect(objects[k], k, Top.ray))]
            union == UNION {Range(each[k]) : k \in 1..Len(objects)}
            places == UNION {{<<k, l>> : l \in 1..Len(each[k])} : k \in 1..Len(objects)}
        IN /\ stack' = Callers
           /\ \A k \in 1..(Len(returned) - 1) : FLe(returned[k].t, returned[k + 1].t)
           /\ \A k \in 1..Len(returned) :
                 /\ returned[k].object \in 1..Len(objects)
                 /\ ByShape(objects, returned)[k] \in union
           /\ \A x \in union :
                 Count(ByShape(objects, returned), x.t, x.shape)
                     = Cardinality({place \in places : each[place[1]][place[2]] = x})
           /\ \A p \in Permutations(1..Len(objects)) :
                 LET permuted == [world EXCEPT !.objects = [k \in 1..Len(objects) |-> objects[p[k]]]]
                     again == intersect(permuted, Top.ray)
                 IN /\ Len(again) = Len(returned)
                    /\ \A x \in union :
                          Count(ByShape(permuted.objects, again), x.t, x.shape)
                              = Count(ByShape(objects, returned), x.t, x.shape)
                    /\ \A k \in 1..Len(again) : FEq(again[k].t, returned[k].t)]_vars

\* two planes in the world, the nearer one being the second shape
C9_Witness ==
    /\ Done
    /\ ret.fn = "intersect"
    /\ Len(ret.intersections) = 2
    /\ ret.intersections[1].object = 2
    /\ ret.intersections[2].object = 1
    /\ FLt(ret.intersections[1].t, ret.intersections[2].t)

\* C10: is_shadowed(point) is true if and only if the ray from point toward
\* the light has a hit, the intersection with the smallest t >= 0 over all the
\* shapes, whose t is less than the distance from point to the light.
C10_IsShadowed ==
    [][stack # << >> /\ Top.fn = "is_shadowed" =>
        LET light_to_point == TSub(world.light.position, Top.point)
            distance == magnitude(light_to_point)
            intersections == intersect(world, Ray(Top.point, normalize(light_to_point)))
        IN /\ stack' = Callers
           /\ ret'.shadowed = (\E index \in SmallestNonNegative(intersections) :
                               FLt(intersections[index + 1].t, distance))]_vars

----------------------------------------------------------------------------
(* Shape, Pattern and Camera under set_transform *)

\* the variables of the intersection lists and of the calls on a World
calls == <<world, vec, xs, hit_index, walk, pc, stack, ret>>

\* nothing is called on a World
NoCalls ==
    /\ world = XsWorld
    /\ vec = << >>
    /\ xs = << >>
    /\ hit_index = None
    /\ walk = WalkInit
    /\ pc = "values"
    /\ stack = << >>
    /\ ret = NoReturn

\* a 3-4-5 angle
Angle345 == Angle(F(3, 5), F(4, 5))

\* the transforms handed to set_transform; the last two have no inverse
TransformInputs ==
    {IDENTITY,
     translation(Zero, F(3, 1), Zero),
     scaling(F(2, 1), F(2, 1), F(2, 1)),
     rotation_z(Angle345),
     scaling(Zero, One, One),
     shearing(One, Zero, One, Zero, Zero, Zero)}

InitSetTransform ==
    /\ NoCalls
    /\ NewValues

ShapeSetTransform ==
    /\ \E transform \in TransformInputs :
          \E call \in {shape_set_transform(shape, transform)} :
             /\ shape' = call.self
             /\ result' = [op |-> "Shape::set_transform", args |-> <<transform>>,
                           returns |-> call.returns]
    /\ UNCHANGED <<pattern, camera, canvas, builder, calls>>

PatternSetTransform ==
    /\ \E transform \in TransformInputs :
          \E call \in {pattern_set_transform(pattern, transform)} :
             /\ pattern' = call.self
             /\ result' = [op |-> "Pattern::set_transform", args |-> <<transform>>,
                           returns |-> call.returns]
    /\ UNCHANGED <<shape, camera, canvas, builder, calls>>

CameraSetTransform ==
    /\ \E transform \in TransformInputs :
          \E call \in {camera_set_transform(camera, transform)} :
             /\ camera' = call.self
             /\ result' = [op |-> "Camera::set_transform", args |-> <<transform>>,
                           returns |-> call.returns]
    /\ UNCHANGED <<shape, pattern, canvas, builder, calls>>

NextSetTransform == ShapeSetTransform \/ PatternSetTransform \/ CameraSetTransform

SpecSetTransform == InitSetTransform /\ [][NextSetTransform]_vars

\* C11: a set_transform of a Shape, a Pattern or a Camera that is handed a
\* transform without an inverse returns the error, and the transform and the
\* inverse of all three are afterwards what they were before the call.
C11_SetTransformRejects ==
    [][~invertible(result'.args[1]) =>
          /\ is_err(result'.returns)
          /\ result'.returns[2] \in {"NoInverseError", "NoInverseTransformError"}
          /\ \A before \in {<<shape, shape'>>, <<pattern, pattern'>>, <<camera, camera'>>} :
                /\ before[2].transform = before[1].transform
                /\ before[2].inverse = before[1].inverse]_vars

C11_Witness ==
    /\ result.op = "Pattern::set_transform"
    /\ is_err(result.returns)
    /\ pattern.transform = rotation_z(Angle345)

\* m * n and n * m are the identity
IsInverseOf(m, n) ==
    LET mn == MatMul(m, n)
        nm == MatMul(n, m)
    IN \A i, j \in 0..3 : FEq(mn[i][j], IDENTITY[i][j]) /\ FEq(nm[i][j], IDENTITY[i][j])

\* C12: in every state, from construction on and whatever set_transform
\* calls were accepted or rejected, the inverse cached by the Shape, by the
\* Pattern and by the Camera is the inverse of the transform it stores.
C12_InverseIsCached ==
    /\ IsInverseOf(shape.transform, shape.inverse)
    /\ IsInverseOf(pattern.transform, pattern.inverse)
    /\ IsInverseOf(camera.transform, camera.inverse)

C12_Witness ==
    /\ result.op = "Shape::set_transform"
    /\ is_err(result.returns)
    /\ shape.transform = scaling(F(2, 1), F(2, 1), F(2, 1))
    /\ FEq(shape.inverse[0][0], F(1, 2))
    /\ camera.transform = translation(Zero, F(3, 1), Zero)

----------------------------------------------------------------------------
(* Canvas under write_pixel and pixel_at *)

\* width and height of the canvases
CanvasSizes == {<<2, 2>>, <<3, 1>>, <<1, 2>>}

RED == Color(One, Zero, Zero)
\* the colors written
PixelColors == {WHITE, RED}

InitCanvas ==
    /\ NoCalls
    /\ shape = ShapeNew("Sphere")
    /\ pattern = PatternNew("Stripes")
    /\ camera = CameraNew(1, 1, Angle(Zero, One))
    /\ canvas \in {CanvasNew(size[1], size[2]) : size \in CanvasSizes}
    /\ builder = BuilderNew
    /\ result = NoResult

\* coordinates in the canvas, on its border and beyond it
Columns == 0..(canvas.width + 1)
Rows == 0..(canvas.height + 1)

WritePixel ==
    /\ \E x \in Columns, y \in Rows, color \in PixelColors :
          \E call \in {write_pixel(canvas, x, y, color)} :
             /\ canvas' = call.self
             /\ result' = [op |-> "Canvas::write_pixel", args |-> <<x, y, color>>,
                           returns |-> call.returns]
    /\ UNCHANGED <<shape, pattern, camera, builder, calls>>

PixelAt ==
    /\ \E x \in Columns, y \in Rows :
          result' = [op |-> "Canvas::pixel_at", args |-> <<x, y>>,
                     returns |-> pixel_at(canvas, x, y)]
    /\ UNCHANGED <<shape, pattern, camera, canvas, builder, calls>>

NextCanvas == WritePixel \/ PixelAt

SpecCanvas == InitCanvas /\ [][NextCanvas]_vars

\* C16: write_pixel(x, y, color) with x >= width or y >= height returns the
\* error and changes no pixel; with both in range it returns Ok, pixel_at(x, y)
\* is then that color and every other pixel is what it was.
C16_WritePixel ==
    [][result'.op = "Canvas::write_pixel" =>
          LET x == result'.args[1]
              y == result'.args[2]
              color == result'.args[3]
          IN IF x >= canvas.width \/ y >= canvas.height
             THEN /\ result'.returns = Err("PixelOutOfBoundsError")
                  /\ canvas' = canvas
             ELSE /\ is_ok(result'.returns)
                  /\ canvas'.width = canvas.width
                  /\ canvas'.height = canvas.height
                  /\ Len(canvas'.pixels) = Len(canvas.pixels)
                  /\ pixel_at(canvas', x, y) = Ok(color)
                  /\ \A u \in 0..(canvas.width - 1), v \in 0..(canvas.height - 1) :
                        <<u, v>> # <<x, y>> => pixel_at(canvas', u, v) = pixel_at(canvas, u, v)]_vars

\* a write in the last column, one row below the canvas, is refused on a
\* canvas that holds written pixels
C16_Witness ==
    /\ result.op = "Canvas::write_pixel"
    /\ result.args[1] = canvas.width - 1
    /\ result.args[2] = canvas.height
    /\ is_err(result.returns)
    /\ pixel_at(canvas, 1, 0) = Ok(RED)
    /\ pixel_at(canvas, 0, 1) = Ok(WHITE)

----------------------------------------------------------------------------
(* Camera: ray_for_pixel and render *)

\* a field of view whose half has the tangent 3/2
WideView == Angle(F(-5, 13), F(12, 13))
\* a quarter turn
QuarterTurn == Angle(Zero, One)

\* a camera of one column and two rows, and one of two columns and one row
\* turned by a quarter around its axis: the rays through the pixels of both
\* are (0, 3/5, -4/5) and (0, -3/5, -4/5)
Cameras ==
    {CameraNew(1, 2, WideView),
     camera_set_transform(CameraNew(2, 1, WideView), rotation_z(QuarterTurn)).self}

Matte == [DefaultMaterial EXCEPT !.shininess = 2]
MirrorGlass ==
    [DefaultMaterial EXCEPT !.shininess = 2, !.reflective = F(1, 2), !.transparaency = F(1, 2),
                            !.refractive_index = F(4, 3)]

\* a floor, a floor of reflecting glass, and a floor with a ceiling, lit from
\* a point between them, in front of the camera
RenderWorlds ==
    {[objects |-> objects, light |-> PointLight(Point(Zero, Zero, F(-4, 1)), WHITE)] :
        objects \in
           {<< NewShape("Plane", translation(Zero, F(-3, 1), Zero), Matte) >>,
            << NewShape("Plane", translation(Zero, F(-3, 1), Zero), MirrorGlass) >>,
            << NewShape("Plane", translation(Zero, F(-3, 1), Zero), Matte),
               NewShape("Plane", translation(Zero, F(3, 1), Zero), Matte) >>}}

InitRender ==
    /\ world \in RenderWorlds
    /\ vec = << >>
    /\ xs = << >>
    /\ hit_index = None
    /\ walk = WalkInit
    /\ pc = "camera"
    /\ stack = << >>
    /\ ret = NoReturn
    /\ shape = ShapeNew("Sphere")
    /\ pattern = PatternNew("Stripes")
    /\ camera \in Cameras
    /\ canvas = CanvasNew(0, 0)
    /\ builder = BuilderNew
    /\ result = NoResult

\* a call of ray_for_pixel from outside, for a pixel of the image, of its
\* border or beyond it
RayForPixel ==
    /\ pc = "camera"
    /\ \E x \in 0..(camera.hsize + 1), y \in 0..(camera.vsize + 1) :
          result' = [op |-> "Camera::ray_for_pixel", args |-> <<x, y>>,
                     returns |-> ray_for_pixel(camera, x, y)]
    /\ UNCHANGED <<shape, pattern, camera, canvas, builder, calls>>

\* the locals of render: the image, the pixel (x, y) the loops stand at, and
\* the calls of write_pixel made so far
RenderFrame(self) ==
    [fn |-> "render", pc |-> "loop", x |-> 0, y |-> 0,
     image |-> CanvasNew(self.hsize, self.vsize), writes |-> << >>]

\* for y in 0..vsize { for x in 0..hsize { .. } }: the pixel after (x, y)
NextPixelByColumn(self, x, y) == IF y + 1 < self.vsize THEN <<x, y + 1>> ELSE <<x + 1, 0>>
NextPixel(self, x, y) == IF x + 1 < self.hsize THEN <<x + 1, y>> ELSE <<0, y + 1>>

\* render is called, a first time or a second time; the caller keeps the
\* image of the first render in canvas
RenderEnterResetting ==
    /\ pc = "camera" \/ (pc = "rendered" /\ canvas.width = 0)
    /\ canvas' = IF pc = "rendered" THEN ret.image ELSE canvas
    /\ stack' = << RenderFrame(camera) >>
    /\ pc' = "called"
    /\ camera' = CameraNew(camera.hsize, camera.vsize, camera.field_of_view)
    /\ UNCHANGED <<world, vec, xs, hit_index, walk, ret>>
    /\ UNCHANGED <<shape, pattern, builder, result>>
RenderEnter ==
    /\ pc = "camera" \/ (pc = "rendered" /\ canvas.width = 0)
    /\ canvas' = IF pc = "rendered" THEN ret.image ELSE canvas
    /\ stack' = << RenderFrame(camera) >>
    /\ pc' = "called"
    /\ UNCHANGED <<world, vec, xs, hit_index, walk, ret>>
    /\ UNCHANGED <<shape, pattern, camera, builder, result>>

\* the body of the loops up to the call of color_from
RenderPixel ==
    /\ Running("render", "loop")
    /\ Top.y < camera.vsize
    /\ \E ray \in {ray_for_pixel(camera, Top.x, Top.y)} :
          IF is_err(ray)
          THEN pc' = "panicked" /\ UNCHANGED <<stack, ret>>
          ELSE Call(Top, ColorFromFrame(ray[2], RECURSION_DEPTH))
    /\ UNCHANGED <<world, vec, xs, hit_index, walk, values>>

\* the rest of the body: write_pixel of the color that color_from returned
RenderWrite ==
    /\ Running("render", "color_from")
    /\ \E call \in {write_pixel(Top.image, Top.x, Top.y, ret.color)} :
          IF is_err(call.returns)
          THEN pc' = "panicked" /\ UNCHANGED <<stack, ret>>
          ELSE /\ \E next \in {NextPixel(camera, Top.x, Top.y)} :
                     stack' = Append(Callers,
                                     [Top EXCEPT !.pc = "loop", !.image = call.self,
                                                 !.x = next[1], !.y = next[2],
                                                 !.writes = Append(@, <<Top.x, Top.y, ret.color>>)])
               /\ UNCHANGED <<pc, ret>>
    /\ UNCHANGED <<world, vec, xs, hit_index, walk, values>>

\* the loops are over: render returns the image
RenderReturn ==
    /\ Running("render", "loop")
    /\ Top.y >= camera.vsize
    /\ stack' = Callers
    /\ ret' = [NoReturn EXCEPT !.fn = "render", !.image = Top.image]
    /\ pc' = "rendered"
    /\ UNCHANGED <<world, vec, xs, hit_index, walk, values>>

NextRender ==
    \/ RayForPixel
    \/ RenderEnter \/ RenderPixel \/ RenderWrite \/ RenderReturn
    \/ ColorFromMiss \/ ColorFromHit \/ ColorFromReturn
    \/ ShadeHitStart \/ ShadeHitReflected \/ ShadeHitReturn
    \/ ReflectedZero \/ ReflectedCast \/ ReflectedReturn
    \/ RefractedZero \/ RefractedCast \/ RefractedReturn

SpecRender == InitRender /\ [][NextRender]_vars

\* C13: ray_for_pixel(x, y) returns the error for every x >= hsize and for
\* every y >= vsize, x == hsize and y == vsize among them, and a ray for every
\* x < hsize with y < vsize.
C13_RayForPixelBounds ==
    [][result'.op = "Camera::ray_for_pixel" =>
          LET x == result'.args[1]
              y == result'.args[2]
          IN IF x < camera.hsize /\ y < camera.vsize
             THEN is_ok(result'.returns)
             ELSE result'.returns = Err("PixelOutOfBoundsError")]_vars

\* the frame that a step of render leaves on the stack
Rendering == stack'[1]

C15_RenderIsReadOnly ==
    /\ [][stack # << >> \/ stack' # << >> => world' = world /\ camera' = camera]_vars
    /\ [](pc = "rendered" /\ canvas.width > 0 => ret.image = canvas)

\* both renders of the floor of reflecting glass by the turned camera are done
C15_Witness ==
    /\ pc = "rendered"
    /\ canvas.width = 2
    /\ camera.transform = rotation_z(QuarterTurn)
    /\ world.objects[1].material = MirrorGlass
    /\ \E x \in 0..1 : pixel_at(canvas, x, 0) # Ok(BLACK)

----------------------------------------------------------------------------
(* Transform values: Transform::new, the constructors, Builder, inverse.    *)
(* From here on a coordinate is the f64 itself, not a length in units of    *)
(* 1e-5: no tolerance of the shading takes part.                            *)

\* most calls chained on a Builder
MaxSteps == 2

\* the arrays handed to Transform::new: the last row is a last row of a
\* transform, with 0.0 or with -0.0, or it is not
EntriesInputs ==
    {<< <<F(1, 1), F(2, 1), F(3, 1), F(4, 1)>>,
        <<F(5, 1), F(6, 1), F(7, 1), F(8, 1)>>,
        <<F(9, 1), F(8, 1), F(7, 1), F(6, 1)>>,
        last >> :
        last \in {<<Zero, Zero, Zero, One>>, <<NegZero, Zero, NegZero, One>>,
                  <<Zero, Zero, Zero, F(2, 1)>>, <<Zero, Zero, Zero, Zero>>,
                  <<Zero, One, Zero, One>>, <<F(1, 100000), Zero, Zero, One>>}}

\* from, to and up handed to view_transform: the default orientation, and
\* a look along (0, 3, 4) from (1, 2, 3)
ViewInputs ==
    {<<Point(Zero, Zero, Zero), Point(Zero, Zero, F(-1, 1)), Vector(Zero, One, Zero)>>,
     <<Point(F(1, 1), F(2, 1), F(3, 1)), Point(F(1, 1), F(5, 1), F(7, 1)),
       Vector(Zero, Zero, F(2, 1))>>}

InitBuilder ==
    /\ NoCalls
    /\ NewValues

\* a method of Builder is called on the builder
BuilderCall(method, args, constructed) ==
    /\ builder.steps < MaxSteps
    /\ builder' = BuilderThen(builder, constructed)
    /\ result' = [op |-> method, args |-> args, returns |-> << >>]

BuilderTranslation ==
    /\ \E args \in {<<F(1, 1), F(-2, 1), F(3, 1)>>} :
          BuilderCall("Builder::translation", args, translation(args[1], args[2], args[3]))
    /\ UNCHANGED <<shape, pattern, camera, canvas, calls>>

BuilderScaling ==
    /\ \E args \in {<<F(2, 1), F(1, 2), F(-1, 1)>>, <<Zero, One, One>>} :
          BuilderCall("Builder::scaling", args, scaling(args[1], args[2], args[3]))
    /\ UNCHANGED <<shape, pattern, camera, canvas, calls>>

BuilderRotationX ==
    /\ \E r \in {Angle345} : BuilderCall("Builder::rotation_x", <<r>>, rotation_x(r))
    /\ UNCHANGED <<shape, pattern, camera, canvas, calls>>

BuilderRotationY ==
    /\ \E r \in {Angle345} : BuilderCall("Builder::rotation_y", <<r>>, rotation_y(r))
    /\ UNCHANGED <<shape, pattern, camera, canvas, calls>>

BuilderRotationZ ==
    /\ \E r \in {Angle345} : BuilderCall("Builder::rotation_z", <<r>>, rotation_z(r))
    /\ UNCHANGED <<shape, pattern, camera, canvas, calls>>

BuilderShearing ==
    /\ \E args \in {<<One, Zero, Zero, F(2, 1), Zero, Zero>>} :
          BuilderCall("Builder::shearing", args,
                      shearing(args[1], args[2], args[3], args[4], args[5], args[6]))
    /\ UNCHANGED <<shape, pattern, camera, canvas, calls>>

TransformNewCall ==
    /\ \E entries \in EntriesInputs :
          result' = [op |-> "Transform::new", args |-> <<entries>>,
                     returns |-> TransformNew(entries)]
    /\ UNCHANGED <<shape, pattern, camera, canvas, builder, calls>>

ViewTransform ==
    /\ \E args \in ViewInputs :
          result' = [op |-> "view_transform", args |-> args,
                     returns |-> Some(view_transform(args[1], args[2], args[3]))]
    /\ UNCHANGED <<shape, pattern, camera, canvas, builder, calls>>

\* Transform::inverse of the transform built
TransformInverse ==
    /\ result' = [op |-> "Transform::inverse", args |-> <<builder.current>>,
                  returns |-> transform_inverse(builder.current)]
    /\ UNCHANGED <<shape, pattern, camera, canvas, builder, calls>>

NextBuilder ==
    \/ BuilderTranslation \/ BuilderScaling
    \/ BuilderRotationX \/ BuilderRotationY \/ BuilderRotationZ \/ BuilderShearing
    \/ TransformNewCall \/ ViewTransform \/ TransformInverse

SpecBuilder == InitBuilder /\ [][NextBuilder]_vars

\* the last row of m is [0, 0, 0, 1]
IsAffine(m) == \A j \in 0..3 : FEq(m[3][j], IF j = 3 THEN One ELSE Zero)

----------------------------------------------------------------------------
(* Matrices, and Point and Vector under their operators *)

\* the transforms a Builder is made of, one call each
AlgebraTransforms ==
    {translation(F(1, 1), F(-2, 1), F(3, 1)),
     scaling(F(2, 1), F(1, 2), F(-1, 1)),
     scaling(Zero, One, One),
     rotation_x(Angle345),
     rotation_z(Angle345),
     shearing(One, Zero, Zero, F(2, 1), Zero, Zero)}

\* the 2x2 matrices over -1, 0, 2, and one with the determinant 1e-6
Matrices2 ==
    {Matrix(<< <<a, b>>, <<c, d>> >>) :
        a \in {F(-1, 1), Zero, F(2, 1)}, b \in {F(-1, 1), Zero, F(2, 1)},
        c \in {F(-1, 1), Zero, F(2, 1)}, d \in {F(-1, 1), Zero, F(2, 1)}}
      \cup {Matrix(<< <<F(1, 1000), Zero>>, <<Zero, F(1, 1000)>> >>)}

\* 3x3 matrices: those of the tests determinant3 and cofactor3, and two
\* without an inverse
Matrices3 ==
    {Matrix(<< <<F(1, 1), F(2, 1), F(6, 1)>>,
               <<F(-5, 1), F(8, 1), F(-4, 1)>>,
               <<F(2, 1), F(6, 1), F(4, 1)>> >>),
     Matrix(<< <<F(3, 1), F(5, 1), Zero>>,
               <<F(2, 1), F(-1, 1), F(-7, 1)>>,
               <<F(6, 1), F(-1, 1), F(5, 1)>> >>),
     Matrix(<< <<F(1, 1), F(2, 1), F(3, 1)>>,
               <<F(2, 1), F(4, 1), F(6, 1)>>,
               <<Zero, F(1, 1), F(1, 1)>> >>),
     Matrix(<< <<Zero, Zero, Zero>>,
               <<Zero, F(1, 2), Zero>>,
               <<Zero, Zero, One>> >>)}

\* 4x4 matrices of the tests inverse, inverse2, not_invertible and
\* inverse_is_inverse
TestInverse ==
    Matrix(<< <<F(-5, 1), F(2, 1), F(6, 1), F(-8, 1)>>,
              <<F(1, 1), F(-5, 1), F(1, 1), F(8, 1)>>,
              <<F(7, 1), F(7, 1), F(-6, 1), F(-7, 1)>>,
              <<F(1, 1), F(-3, 1), F(7, 1), F(4, 1)>> >>)
TestInverse2 ==
    Matrix(<< <<F(8, 1), F(-5, 1), F(9, 1), F(2, 1)>>,
              <<F(7, 1), F(5, 1), F(6, 1), F(1, 1)>>,
              <<F(-6, 1), Zero, F(9, 1), F(6, 1)>>,
              <<F(-3, 1), Zero, F(-9, 1), F(-4, 1)>> >>)
TestNotInvertible ==
    Matrix(<< <<F(-4, 1), F(2, 1), F(-2, 1), F(-3, 1)>>,
              <<F(9, 1), F(6, 1), F(2, 1), F(6, 1)>>,
              <<Zero, F(-5, 1), F(1, 1), F(-5, 1)>>,
              <<Zero, Zero, Zero, Zero>> >>)
TestA ==
    Matrix(<< <<F(3, 1), F(-9, 1), F(7, 1), F(3, 1)>>,
              <<F(3, 1), F(-8, 1), F(2, 1), F(-9, 1)>>,
              <<F(-4, 1), F(4, 1), F(4, 1), F(1, 1)>>,
              <<F(-6, 1), F(5, 1), F(-1, 1), F(1, 1)>> >>)
TestB ==
    Matrix(<< <<F(8, 1), F(2, 1), F(2, 1), F(2, 1)>>,
              <<F(3, 1), F(-1, 1), F(7, 1), Zero>>,
              <<F(7, 1), Zero, F(5, 1), F(4, 1)>>,
              <<F(6, 1), F(-2, 1), Zero, F(5, 1)>> >>)
Matrices4 == {TestInverse, TestInverse2, TestNotInvertible, TestA, TestB} \cup AlgebraTransforms

Points ==
    {Point(Zero, Zero, Zero), Point(F(1, 1), F(-2, 1), F(3, 1)), Point(F(1, 2), NegZero, F(-7, 1))}
Vectors ==
    {Vector(Zero, Zero, Zero), Vector(One, Zero, Zero), Vector(F(-3, 1), F(1, 2), F(2, 1))}
Scalars == {F(2, 1), F(-1, 2), Zero, NegZero}

InitAlgebra ==
    /\ NoCalls
    /\ shape = ShapeNew("Sphere")
    /\ pattern = PatternNew("Stripes")
    /\ camera = CameraNew(1, 1, Angle(Zero, One))
    /\ canvas = CanvasNew(0, 0)
    /\ builder \in {BuilderNew} \cup {BuilderThen(BuilderNew, t) : t \in AlgebraTransforms}
    /\ result = NoResult

\* inverse() of a matrix of 2, 3 or 4 rows
MatrixInverse ==
    /\ \E m \in Matrices2 \cup Matrices3 \cup Matrices4 :
          \E inverted \in {inverse(m)} :
             result' = [op |-> "Matrix::inverse", args |-> <<m>>,
                        returns |-> IF inverted = None THEN None ELSE Some(inverted)]
    /\ UNCHANGED <<shape, pattern, camera, canvas, builder, calls>>

\* &a * &b of two matrices of 4 rows
MatrixMul ==
    /\ \E a \in {TestA, TestInverse}, b \in Matrices4 :
          result' = [op |-> "Matrix * Matrix", args |-> <<a, b>>, returns |-> MatMul(a, b)]
    /\ UNCHANGED <<shape, pattern, camera, canvas, builder, calls>>

TransformMulPoint ==
    /\ \E rhs \in Points :
          result' = [op |-> "Transform * Point", args |-> <<builder.current, rhs>>,
                     returns |-> MulPoint(builder.current, rhs)]
    /\ UNCHANGED <<shape, pattern, camera, canvas, builder, calls>>

TransformMulVector ==
    /\ \E rhs \in Vectors :
          result' = [op |-> "Transform * Vector", args |-> <<builder.current, rhs>>,
                     returns |-> MulVector(builder.current, rhs)]
    /\ UNCHANGED <<shape, pattern, camera, canvas, builder, calls>>

AddVectorToPoint ==
    /\ \E self \in Points, rhs \in Vectors :
          result' = [op |-> "Point + Vector", args |-> <<self, rhs>>,
                     returns |-> PointAddVector(self, rhs)]
    /\ UNCHANGED <<shape, pattern, camera, canvas, builder, calls>>

SubPointFromPoint ==
    /\ \E self \in Points, rhs \in Points :
          result' = [op |-> "Point - Point", args |-> <<self, rhs>>,
                     returns |-> PointSubPoint(self, rhs)]
    /\ UNCHANGED <<shape, pattern, camera, canvas, builder, calls>>

SubVectorFromPoint ==
    /\ \E self \in Points, rhs \in Vectors :
          result' = [op |-> "Point - Vector", args |-> <<self, rhs>>,
                     returns |-> PointSubVector(self, rhs)]
    /\ UNCHANGED <<shape, pattern, camera, canvas, builder, calls>>

AddPointToVector ==
    /\ \E self \in Vectors, rhs \in Points :
          result' = [op |-> "Vector + Point", args |-> <<self, rhs>>,
                     returns |-> VectorAddPoint(self, rhs)]
    /\ UNCHANGED <<shape, pattern, camera, canvas, builder, calls>>

AddVectors ==
    /\ \E self \in Vectors, rhs \in Vectors :
          result' = [op |-> "Vector + Vector", args |-> <<self, rhs>>,
                     returns |-> VectorAddVector(self, rhs)]
    /\ UNCHANGED <<shape, pattern, camera, canvas, builder, calls>>

SubVectors ==
    /\ \E self \in Vectors, rhs \in Vectors :
          result' = [op |-> "Vector - Vector", args |-> <<self, rhs>>,
                     returns |-> VectorSubVector(self, rhs)]
    /\ UNCHANGED <<shape, pattern, camera, canvas, builder, calls>>

NegVector ==
    /\ \E self \in Vectors :
          result' = [op |-> "-Vector", args |-> <<self>>, returns |-> VectorNeg(self)]
    /\ UNCHANGED <<shape, pattern, camera, canvas, builder, calls>>

ScaleVector ==
    /\ \E self \in Vectors, rhs \in Scalars :
          result' = [op |-> "Vector * f64", args |-> <<self, rhs>>,
                     returns |-> VectorMulF64(self, rhs)]
    /\ UNCHANGED <<shape, pattern, camera, canvas, builder, calls>>

ScaleVectorFromLeft ==
    /\ \E self \in Scalars, rhs \in Vectors :
          result' = [op |-> "f64 * Vector", args |-> <<self, rhs>>,
                     returns |-> F64MulVector(self, rhs)]
    /\ UNCHANGED <<shape, pattern, camera, canvas, builder, calls>>

\* a division by a scalar other than zero
DivideVector ==
    /\ \E self \in Vectors, rhs \in {scalar \in Scalars : ~FEq(scalar, Zero)} :
          result' = [op |-> "Vector / f64", args |-> <<self, rhs>>,
                     returns |-> VectorDivF64(self, rhs)]
    /\ UNCHANGED <<shape, pattern, camera, canvas, builder, calls>>

NextAlgebra ==
    \/ MatrixInverse \/ MatrixMul \/ TransformInverse
    \/ TransformMulPoint \/ TransformMulVector
    \/ AddVectorToPoint \/ SubPointFromPoint \/ SubVectorFromPoint \/ AddPointToVector
    \/ AddVectors \/ SubVectors \/ NegVector
    \/ ScaleVector \/ ScaleVectorFromLeft \/ DivideVector

SpecAlgebra == InitAlgebra /\ [][NextAlgebra]_vars

\* the determinant of rows r1, r2 and columns c1, c2 of m
Minor2(m, r1, r2, c1, c2) == FSub(FMul(m[r1][c1], m[r2][c2]), FMul(m[r1][c2], m[r2][c1]))

\* the determinant of three rows and three columns of m, along their first column
Minor3(m, r, c) ==
    FAdd(FSub(FMul(m[r[1]][c[1]], Minor2(m, r[2], r[3], c[2], c[3])),
              FMul(m[r[2]][c[1]], Minor2(m, r[1], r[3], c[2], c[3]))),
         FMul(m[r[3]][c[1]], Minor2(m, r[1], r[2], c[2], c[3])))

\* the determinant of m by the expansion along the first column
ColumnExpansion(m) ==
    CASE Dim(m) = 2 -> Minor2(m, 0, 1, 0, 1)
      [] Dim(m) = 3 -> Minor3(m, <<0, 1, 2>>, <<0, 1, 2>>)
      [] Dim(m) = 4 ->
            FSub(FAdd(FSub(FMul(m[0][0], Minor3(m, <<1, 2, 3>>, <<1, 2, 3>>)),
                           FMul(m[1][0], Minor3(m, <<0, 2, 3>>, <<1, 2, 3>>))),
                      FMul(m[2][0], Minor3(m, <<0, 1, 3>>, <<1, 2, 3>>))),
                 FMul(m[3][0], Minor3(m, <<0, 1, 2>>, <<1, 2, 3>>)))

\* the identity of as many rows as m
IdentityLike(m) == [i \in DOMAIN m |-> [j \in DOMAIN m |-> IF i = j THEN One ELSE Zero]]

\* C18: inverse() of a matrix of 2, 3 or 4 rows, and Transform::inverse,
\* return None exactly when the determinant, as the expansion along the first
\* row computes it, is 0, however small a determinant other than 0 is;
\* otherwise Some(B) with B[i][j] = cofactor(j, i) / determinant, which is the
\* inverse; invertible() is true exactly when inverse() is Some.
C18_InverseIffDeterminant ==
    result.op \in {"Matrix::inverse", "Transform::inverse"} =>
        LET m == result.args[1]
        IN /\ FEq(determinant(m), ColumnExpansion(m))
           /\ result.returns = None <=> FEq(ColumnExpansion(m), Zero)
           /\ invertible(m) <=> result.returns # None
           /\ result.returns # None =>
                 /\ \A i, j \in DOMAIN m :
                       FEq(result.returns[1][i][j], FDiv(cofactor(m, j, i), ColumnExpansion(m)))
                 /\ \A i, j \in DOMAIN m :
                       /\ FEq(MatMul(m, result.returns[1])[i][j], IdentityLike(m)[i][j])
                       /\ FEq(MatMul(result.returns[1], m)[i][j], IdentityLike(m)[i][j])

\* the matrix of the test inverse has been inverted: its determinant is 532,
\* entry [3][2] of its inverse -160/532 and entry [2][3] 105/532
C18_Witness ==
    /\ result.op = "Matrix::inverse"
    /\ result.args[1] = TestInverse
    /\ FEq(determinant(TestInverse), F(532, 1))
    /\ result.returns # None
    /\ FEq(result.returns[1][3][2], F(-160, 532))
    /\ FEq(result.returns[1][2][3], F(105, 532))

PointOps == {"Point + Vector", "Point - Vector", "Vector + Point", "Transform * Point"}
VectorOps ==
    {"Point - Point", "Vector + Vector", "Vector - Vector", "-Vector", "Vector * f64",
     "f64 * Vector", "Vector / f64", "Transform * Vector"}

\* the translation by (x, y, z), if m is one
IsTranslation(m) == m = translation(m[0][3], m[1][3], m[2][3])

\* C20: whatever an operator returns as a Point has w = 1 and whatever it
\* returns as a Vector has w = 0; a translation moves a point by its offsets
\* and returns every vector as it was.
C20_WeightIsPreserved ==
    /\ result.op \in PointOps => result.returns.w \in {One}
    /\ result.op \in VectorOps => result.returns.w \in {Zero, NegZero}
    /\ result.op = "Transform * Point" /\ IsTranslation(result.args[1]) =>
          LET m == result.args[1]
              p == result.args[2]
          IN /\ FEq(result.returns.x, FAdd(p.x, m[0][3]))
             /\ FEq(result.returns.y, FAdd(p.y, m[1][3]))
             /\ FEq(result.returns.z, FAdd(p.z, m[2][3]))
    /\ result.op = "Transform * Vector" /\ IsTranslation(result.args[1]) =>
          TupleEq(result.returns, result.args[2])

\* a translation has left a vector as it was
C20_Witness ==
    /\ result.op = "Transform * Vector"
    /\ result.args[1] = translation(F(1, 1), F(-2, 1), F(3, 1))
    /\ result.args[2] = Vector(F(-3, 1), F(1, 2), F(2, 1))
    /\ result.returns = result.args[2]

----------------------------------------------------------------------------
(* The order in which the calls chained on a Builder act *)

\* p under the transforms of chain, the first of them applied first
RECURSIVE ApplyInOrder(_, _)
ApplyInOrder(chain, p) ==
    IF chain = << >> THEN p ELSE ApplyInOrder(Tail(chain), MulPoint(Head(chain), p))

\* the product chain[k] * ... * chain[2] * chain[1]
RECURSIVE ProductOf(_)
ProductOf(chain) ==
    IF chain = << >> THEN IDENTITY
    ELSE TransformMul(chain[Len(chain)], ProductOf(SubSeq(chain, 1, Len(chain) - 1)))

Reverse(chain) == [k \in 1..Len(chain) |-> chain[Len(chain) + 1 - k]]

\* equality of two points, coordinate by coordinate
SamePoint(a, b) == FEq(a.x, b.x) /\ FEq(a.y, b.y) /\ FEq(a.z, b.z) /\ FEq(a.w, b.w)

\* C21: the transform built acts on a point as the calls in the reverse of
\* their order: what the last call constructed acts first, what the first call
\* constructed acts last (translate().rotate().scale() scales first, then
\* rotates, then translates).
C21_LastCallActsFirst ==
    \A p \in Points :
        SamePoint(MulPoint(builder.current, p), ApplyInOrder(Reverse(builder.chain), p))

\* C22: the transform built is the product opk * ... * op2 * op1 of what the
\* calls constructed, and it acts on a point as op1, then op2, ..., then opk
\* one after another, in the order of the calls.
C22_CallsActInCallOrder ==
    /\ builder.steps = Len(builder.chain)
    /\ \A i, j \in 0..3 : FEq(builder.current[i][j], ProductOf(builder.chain)[i][j])
    /\ \A p \in Points :
          SamePoint(MulPoint(builder.current, p), ApplyInOrder(builder.chain, p))

\* translation(1, -2, 3) and then scaling(2, 1/2, -1) have been called: the
\* origin goes to (2, -1, -3), and the other order would take it to (1, -2, 3)
C22_Witness ==
    /\ builder.chain = <<translation(F(1, 1), F(-2, 1), F(3, 1)),
                         scaling(F(2, 1), F(1, 2), F(-1, 1))>>
    /\ SamePoint(MulPoint(builder.current, Point(Zero, Zero, Zero)),
                 Point(F(2, 1), F(-1, 1), F(-3, 1)))
    /\ ~SamePoint(ApplyInOrder(Reverse(builder.chain), Point(Zero, Zero, Zero)),
                  Point(F(2, 1), F(-1, 1), F(-3, 1)))

----------------------------------------------------------------------------
(* Shapes under rays: the local test of a sphere and of a plane,            *)
(* Shape::intersect, and the equality of two intersections                  *)

\* two shapes at two addresses: two unit spheres equal in every field, the
\* spheres of the tests intersect_scaled_shape and intersect_translated_shape,
\* two planes, a sphere and a plane turned around z
ShapeWorlds ==
    {[objects |-> objects, light |-> PointLight(Point(Zero, Zero, Zero), WHITE)] :
        objects \in
          {<<NewShape("Sphere", IDENTITY, DefaultMaterial),
             NewShape("Sphere", IDENTITY, DefaultMaterial)>>,
           <<NewShape("Sphere", scaling(F(2, 1), F(2, 1), F(2, 1)), DefaultMaterial),
             NewShape("Sphere", translation(F(5, 1), Zero, Zero), DefaultMaterial)>>,
           <<NewShape("Plane", IDENTITY, DefaultMaterial),
             NewShape("Plane", translation(Zero, F(3, 1), Zero), DefaultMaterial)>>,
           <<NewShape("Sphere", translation(Zero, Zero, F(-3, 1)), DefaultMaterial),
             NewShape("Plane", rotation_z(Angle345), DefaultMaterial)>>}}

\* rays along z and along a 3-4-5 direction, through the centre of the unit
\* sphere, through it off the centre, tangent to it, past it, from inside,
\* from behind
SphereLocalRays ==
    {Ray(Point(xy[1], xy[2], z), d) :
        xy \in {<<Zero, Zero>>, <<F(3, 5), Zero>>, <<Zero, One>>, <<Zero, F(2, 1)>>},
        z \in {F(-5, 1), Zero, F(5, 1)},
        d \in {Vector(Zero, Zero, One), Vector(Zero, Zero, F(-2, 1)),
               Vector(Zero, F(3, 5), F(4, 5))}}

\* rays from above the plane, from below it and in it, going up, going
\* down, along the plane, and nearly along it: by 0.000005, by 0.00001
PlaneLocalRays ==
    {Ray(Point(Zero, y, Zero), Vector(Zero, dy, One)) :
        y \in {Zero, One, F(-1, 1), F(3, 1)},
        dy \in {Zero, NegZero, One, F(-1, 1), F(1, 200000), F(-1, 200000),
                F(1, 100000), F(-1, 100000)}}

ShapeRays ==
    {Ray(Point(Zero, y, F(-5, 1)), d) :
        y \in {Zero, F(6, 5), F(3, 1)},
        d \in {Vector(Zero, Zero, One), Vector(Zero, F(-1, 1), Zero),
               Vector(Zero, F(3, 5), F(4, 5))}}

\* intersections on the two shapes, at t apart by less than 0.00001, by
\* 0.00001, by more
EqInputs ==
    {Intersection(t, object) :
        t \in {Zero, F(1, 200000), F(1, 100000), F(3, 100000), F(-1, 100000)},
        object \in {1, 2}}

InitShapes ==
    /\ world \in ShapeWorlds
    /\ vec = << >>
    /\ xs = << >>
    /\ hit_index = None
    /\ walk = WalkInit
    /\ pc = "shapes"
    /\ stack = << >>
    /\ ret = NoReturn
    /\ NewValues

LocalIntersectSphere ==
    /\ \E local_ray \in SphereLocalRays :
          result' = [op |-> "Sphere::local_intersect", args |-> <<local_ray>>,
                     returns |-> SphereLocalIntersect(local_ray)]
    /\ UNCHANGED <<shape, pattern, camera, canvas, builder, calls>>

LocalIntersectPlane ==
    /\ \E local_ray \in PlaneLocalRays :
          result' = [op |-> "Plane::local_intersect", args |-> <<local_ray>>,
                     returns |-> PlaneLocalIntersect(local_ray)]
    /\ UNCHANGED <<shape, pattern, camera, canvas, builder, calls>>

\* intersect of the shape at address object
IntersectShape ==
    /\ \E object \in 1..Len(world.objects), ray \in ShapeRays :
          result' = [op |-> "Shape::intersect", args |-> <<object, ray>>,
                     returns |-> ShapeIntersect(world.objects[object], object, ray)]
    /\ UNCHANGED <<shape, pattern, camera, canvas, builder, calls>>

CompareIntersections ==
    /\ \E self \in EqInputs, other \in EqInputs :
          result' = [op |-> "Intersection == Intersection", args |-> <<self, other>>,
                     returns |-> IntersectionEq(self, other)]
    /\ UNCHANGED <<shape, pattern, camera, canvas, builder, calls>>

NextShapes ==
    LocalIntersectSphere \/ LocalIntersectPlane \/ IntersectShape \/ CompareIntersections

SpecShapes == InitShapes /\ [][NextShapes]_vars

\* the square of the distance of the origin from p
SquaredDistance(p) == FAdd(FAdd(FMul(p.x, p.x), FMul(p.y, p.y)), FMul(p.z, p.z))

\* the square of the distance of the origin from the line of the ray
SquaredDistanceOfLine(ray) ==
    FSub(SquaredDistance(ray.origin),
         FDiv(FMul(dot(ray.direction, ray.origin), dot(ray.direction, ray.origin)),
              dot(ray.direction, ray.direction)))

\* C23: the local test of a sphere returns no t if the line of the ray passes
\* the unit sphere at a distance over 1, and otherwise two t, never one, in
\* ascending order, each the t of a point of the sphere, equal if the ray is
\* a tangent; from (0, 0, -5) along (0, 0, 1) they are 4 and 6, from
\* (0, 1, -5) both are 5.
C23_SphereLocalIntersect ==
    result.op = "Sphere::local_intersect" =>
        LET local_ray == result.args[1]
            ts == result.returns
        IN /\ Len(ts) \in {0, 2}
           /\ Len(ts) = 0 <=> FLt(One, SquaredDistanceOfLine(local_ray))
           /\ Len(ts) = 2 =>
                 /\ FLe(ts[1], ts[2])
                 /\ \A k \in 1..2 : FEq(SquaredDistance(position(local_ray, ts[k])), One)
                 /\ FEq(SquaredDistanceOfLine(local_ray), One) <=> FEq(ts[1], ts[2])
           /\ local_ray = Ray(Point(Zero, Zero, F(-5, 1)), Vector(Zero, Zero, One)) =>
                 Len(ts) = 2 /\ FEq(ts[1], F(4, 1)) /\ FEq(ts[2], F(6, 1))
           /\ local_ray = Ray(Point(Zero, One, F(-5, 1)), Vector(Zero, Zero, One)) =>
                 Len(ts) = 2 /\ FEq(ts[1], F(5, 1)) /\ FEq(ts[2], F(5, 1))

\* the tangent ray from (0, 1, -5) has been tested: 5 and 5
C23_Witness ==
    /\ result.op = "Sphere::local_intersect"
    /\ result.args[1] = Ray(Point(Zero, One, F(-5, 1)), Vector(Zero, Zero, One))
    /\ result.returns = <<F(5, 1), F(5, 1)>>

\* C24: the local test of a plane returns no t if |direction.y| < 0.00001,
\* also for a ray in the plane, and otherwise the one t = -origin.y /
\* direction.y, at which the ray is in the plane, from above and from below.
C24_PlaneLocalIntersect ==
    result.op = "Plane::local_intersect" =>
        LET local_ray == result.args[1]
            ts == result.returns
        IN IF FLt(FAbs(local_ray.direction.y), F(1, 100000))
           THEN ts = << >>
           ELSE /\ Len(ts) = 1
                /\ FEq(ts[1], FDiv(FNeg(local_ray.origin.y), local_ray.direction.y))
                /\ FEq(position(local_ray, ts[1]).y, Zero)

\* a ray from above that falls by 0.000005 for each unit along z is parallel
C24_Witness ==
    /\ result.op = "Plane::local_intersect"
    /\ result.args[1] = Ray(Point(Zero, One, Zero), Vector(Zero, F(-1, 200000), One))
    /\ result.returns = << >>

\* the local surface of a model passes through the local point
OnSurface(model, local_point) ==
    IF model = "Plane" THEN FEq(local_point.y, Zero)
    ELSE FEq(SquaredDistance(local_point), One)

\* C25: Shape::intersect hands the local test the ray transformed by the
\* inverse the shape caches, and returns one intersection for each t of the
\* local test, every one with a reference to the very shape that was asked:
\* the shape at that address, not another shape equal to it.
C25_ShapeIntersect ==
    result.op = "Shape::intersect" =>
        LET object == result.args[1]
            ray == result.args[2]
            self == world.objects[object]
            local_ray == Ray(MulPoint(self.inverse, ray.origin),
                             MulVector(self.inverse, ray.direction))
            ts == IF self.model = "Plane" THEN PlaneLocalIntersect(local_ray)
                                       ELSE SphereLocalIntersect(local_ray)
        IN /\ IsInverseOf(self.inverse, self.transform)
           /\ Len(result.returns) = Len(ts)
           /\ \A k \in 1..Len(ts) :
                 /\ result.returns[k].object = object
                 /\ Cardinality({i \in 1..Len(ts) : ts[i] = ts[k]})
                       = Cardinality({i \in 1..Len(ts) : result.returns[i].t = ts[k]})
                 /\ OnSurface(self.model,
                              MulPoint(self.inverse, position(ray, result.returns[k].t)))

\* the sphere scaled by 2 met by the ray from (0, 0, -5) along z, at 3 and 7
C25_Witness ==
    /\ result.op = "Shape::intersect"
    /\ world.objects[result.args[1]].transform = scaling(F(2, 1), F(2, 1), F(2, 1))
    /\ result.args[2] = Ray(Point(Zero, Zero, F(-5, 1)), Vector(Zero, Zero, One))
    /\ Len(result.returns) = 2
    /\ FEq(result.returns[1].t, F(3, 1))
    /\ FEq(result.returns[2].t, F(7, 1))

\* C28: a == b of two intersections holds exactly when |a.t - b.t| < 0.00001
\* and both refer to the same shape instance; so a == b iff b == a, and two
\* intersections on one shape with t apart by 0.00001 or more are not equal.
C28_IntersectionEq ==
    result.op = "Intersection == Intersection" =>
        LET a == result.args[1]
            b == result.args[2]
        IN /\ result.returns
                 <=> (FLt(FAbs(FSub(a.t, b.t)), F(1, 100000)) /\ a.object = b.object)
           /\ result.returns <=> IntersectionEq(b, a)

----------------------------------------------------------------------------
(* The HitInfo that color_from hands to shade_hit *)

\* the calls of shade_hit in progress: k is the place of the frame, the frame
\* below it the color_from that prepared its hit_info
ShadeHits == {k \in 2..Len(stack) : stack[k].fn = "shade_hit"}

\* C26: in every HitInfo that prepare returns, eyev = -ray.direction, inside
\* holds exactly when dot(object.normal_at(point), eyev) < 0, normal is the
\* negated normal_at exactly then and normal_at otherwise, so that
\* dot(normal, eyev) >= 0, and over_point = point + normal * epsilon,
\* under_point = point - normal * epsilon with that normal.
C26_PrepareFlipsNormal ==
    \A k \in ShadeHits :
        LET hit_info == stack[k].hit_info
            ray == stack[k - 1].ray
            naive_normal == normal_at(world.objects[hit_info.object], hit_info.point)
        IN /\ SamePoint(hit_info.point, position(ray, hit_info.t))
           /\ SamePoint(hit_info.eyev, TNeg(ray.direction))
           /\ hit_info.inside <=> FLt(dot(naive_normal, hit_info.eyev), Zero)
           /\ SamePoint(hit_info.normal,
                        IF hit_info.inside THEN TNeg(naive_normal) ELSE naive_normal)
           /\ FLe(Zero, dot(hit_info.normal, hit_info.eyev))
           /\ SamePoint(hit_info.over_point,
                        TAdd(hit_info.point, TMul(hit_info.normal, SHADOW_EPSILON)))
           /\ SamePoint(hit_info.under_point,
                        TSub(hit_info.point, TMul(hit_info.normal, SHADOW_EPSILON)))

\* a hit from inside: the normal handed to shade_hit is the negated normal_at,
\* and over_point is on the side of the eye
C26_Witness ==
    \E k \in ShadeHits :
        /\ stack[k].hit_info.inside
        /\ FLt(dot(normal_at(world.objects[stack[k].hit_info.object], stack[k].hit_info.point),
                   stack[k].hit_info.eyev), Zero)
        /\ FLt(Zero, dot(stack[k].hit_info.normal, stack[k].hit_info.eyev))
        /\ ~SamePoint(stack[k].hit_info.over_point, stack[k].hit_info.under_point)

----------------------------------------------------------------------------
(* lighting, called with every combination of its arguments *)

\* the default material with the shininess 2, and an orange one
LightingMaterials ==
    {[DefaultMaterial EXCEPT !.shininess = 2],
     [DefaultMaterial EXCEPT !.color = Color(One, F(1, 2), Zero), !.ambient = F(1, 5),
                             !.diffuse = F(1, 2), !.specular = F(1, 2), !.shininess = 3]}

\* lights in front of the surface at the origin, behind it, and to the side
Lights ==
    {PointLight(at, intensity) :
        at \in {Point(Zero, Zero, F(-10, 1)), Point(Zero, Zero, F(10, 1)),
                Point(Zero, F(3, 1), F(-4, 1)), Point(Zero, F(-6, 1), F(8, 1))},
        intensity \in {WHITE, Color(F(1, 2), F(1, 2), One)}}

Eyes ==
    {Vector(Zero, Zero, F(-1, 1)), Vector(Zero, F(3, 5), F(-4, 5)),
     Vector(Zero, F(-3, 5), F(-4, 5)), Vector(Zero, Zero, One)}

Normals == {Vector(Zero, Zero, F(-1, 1)), Vector(Zero, Zero, One), Vector(Zero, One, Zero)}

InitLighting ==
    /\ world = XsWorld
    /\ vec = << >>
    /\ xs = << >>
    /\ hit_index = None
    /\ walk = WalkInit
    /\ pc = "lighting"
    /\ stack = << >>
    /\ ret = NoReturn
    /\ NewValues

\* lighting of the point at the origin
Lighting ==
    /\ pc = "lighting"
    /\ \E material \in LightingMaterials, light \in Lights, eyev \in Eyes,
          normal \in Normals, in_shadow \in BOOLEAN :
          result' = [op |-> "lighting",
                     args |-> <<material, light, Point(Zero, Zero, Zero), eyev, normal,
                                in_shadow>>,
                     returns |-> lighting(material, light, Point(Zero, Zero, Zero), eyev,
                                          normal, in_shadow)]
    /\ UNCHANGED <<shape, pattern, camera, canvas, builder, calls>>

NextLighting == Lighting

SpecLighting == InitLighting /\ [][NextLighting]_vars

SameColor(a, b) == \A k \in 1..3 : FEq(a[k], b[k])

\* the ambient term: color * light.intensity * material.ambient
AmbientTerm(material, light) ==
    [k \in 1..3 |-> FMul(FMul(material.color[k], light.intensity[k]), material.ambient)]

\* the diffuse term for a light at the cosine c to the normal
DiffuseTerm(material, light, c) ==
    [k \in 1..3 |->
        FMul(FMul(FMul(material.color[k], light.intensity[k]), material.diffuse), c)]

\* C27: lighting returns the ambient term alone if in_shadow, whatever the
\* eye, the normal and the light; not in shadow, with dot(lightv, normal) < 0
\* it returns the ambient term again, diffuse and specular being zero; and
\* whenever dot(reflectv, eyev) <= 0 the specular term is zero, the result
\* being ambient + diffuse.
C27_LightingTerms ==
    result.op = "lighting" =>
        LET material == result.args[1]
            light == result.args[2]
            point == result.args[3]
            eyev == result.args[4]
            normal == result.args[5]
            in_shadow == result.args[6]
            lightv == normalize(TSub(light.position, point))
            reflectv == reflect(TNeg(lightv), normal)
        IN /\ in_shadow => SameColor(result.returns, AmbientTerm(material, light))
           /\ ~in_shadow /\ FLt(dot(lightv, normal), Zero) =>
                 SameColor(result.returns, AmbientTerm(material, light))
           /\ ~in_shadow /\ FLe(Zero, dot(lightv, normal)) /\ FLe(dot(reflectv, eyev), Zero) =>
                 SameColor(result.returns,
                           CAdd(AmbientTerm(material, light),
                                DiffuseTerm(material, light, dot(lightv, normal))))

\* the test lighting_with_shadow: the light in front of the surface, the
\* eye in the reflection, in shadow: 0.1 of white
C27_Witness ==
    /\ result.op = "lighting"
    /\ result.args[2] = PointLight(Point(Zero, Zero, F(-10, 1)), WHITE)
    /\ result.args[4] = Vector(Zero, Zero, F(-1, 1))
    /\ result.args[5] = Vector(Zero, Zero, F(-1, 1))
    /\ result.args[6]
    /\ SameColor(result.returns, Color(F(1, 10), F(1, 10), F(1, 10)))

----------------------------------------------------------------------------
(* An Intersections value over its life *)

\* how often seq holds x
Occurrences(seq, x) == Cardinality({k \in 1..Len(seq) : seq[k] = x})

\* xs holds the intersections of vec, each as often as vec holds it
IsPermutation(sorted, given) ==
    /\ Len(sorted) = Len(given)
    /\ \A k \in 1..Len(given) : Occurrences(sorted, given[k]) = Occurrences(given, given[k])

IsAscending(sorted) == \A k \in 1..(Len(sorted) - 1) : FLe(sorted[k].t, sorted[k + 1].t)

\* C29: an Intersections value is sorted ascending by t and is a permutation
\* of the vector it was built from, in whatever order that was, and nothing
\* called on it afterwards (hit, the reads of prepare) changes it.
C29_IntersectionsStaySorted ==
    /\ [](pc # "vec" => IsAscending(xs) /\ IsPermutation(xs, vec))
    /\ [][pc # "vec" => xs' = xs]_vars

\* a vector of three intersections in descending order, sorted, and hit
\* called on the result
C29_Witness ==
    /\ pc = "hit"
    /\ Len(vec) = 3
    /\ FLt(vec[2].t, vec[1].t) /\ FLt(vec[3].t, vec[2].t)
    /\ xs = <<vec[3], vec[2], vec[1]>>

----------------------------------------------------------------------------
(* The budget along a chain of calls started by color_from *)

\* the places of the frames of fn in the stack
FramesOf(fn) == {k \in 1..Len(stack) : stack[k].fn = fn}

\* C30: in every chain of calls started by color_from(ray, r), a nested
\* color_from is called by a reflected_color or a refracted_color whose budget
\* is over 0, itself called by a shade_hit with that budget, and receives
\* exactly one less; no budget is ever below 0; and at most r + 1 calls of
\* color_from are in progress at once.
C30_BudgetThreaded ==
    /\ \A k \in 1..Len(stack) :
          "remaining" \in DOMAIN stack[k] => stack[k].remaining \in 0..MaxBudget
    /\ \A k \in FramesOf("color_from") \ {1} :
          /\ k >= 4
          /\ stack[k - 1].fn \in {"reflected_color", "refracted_color"}
          /\ stack[k - 1].remaining > 0
          /\ stack[k - 2].fn = "shade_hit"
          /\ stack[k - 2].remaining = stack[k - 1].remaining
          /\ stack[k].remaining = stack[k - 2].remaining - 1
          /\ stack[k - 3].fn = "color_from"
          /\ stack[k - 3].remaining = stack[k - 2].remaining
    /\ stack # << >> /\ stack[1].fn = "color_from" =>
          Cardinality(FramesOf("color_from")) <= stack[1].remaining + 1

\* color_from(ray, 2) between two facing mirrors: three calls of color_from
\* in progress, the innermost with the budget 0
C30_Witness ==
    /\ stack # << >>
    /\ stack[1].fn = "color_from"
    /\ stack[1].remaining = 2
    /\ Cardinality(FramesOf("color_from")) = 3
    /\ Top.fn = "reflected_color"
    /\ Top.remaining = 0

====
